---- MODULE Spec2Model ----
(***************************************************************************)
(* A model of tools/s3_rsync.py: the directory-to-object-store             *)
(* synchronizer (content-hash cache, remote prober, upload decision        *)
(* engine, dedup resolver, concurrent executor, deletion sweep).           *)
(*                                                                         *)
(* Nine specifications share the module:                                   *)
(*   SpecDecide     choose_upload_action applied to inputs drawn in Init   *)
(*   SpecScan       should_include applied to inputs drawn in Init         *)
(*   SpecKey        parse_s3_uri and key_for applied to inputs drawn in    *)
(*                  Init                                                   *)
(*   SpecCache      sequences of ShaCache operations, save() step by step  *)
(*                  and reload                                             *)
(*   Spec           main once: the command line, the workers, the sweep,   *)
(*                  the save, with failures of the store and of the file   *)
(*                  system and with Ctrl-C                                 *)
(*   SpecTwice      run_sync twice in succession over an unchanged tree    *)
(*   SpecMalformed  run_sync over a snapshot file that is no cache         *)
(*   SpecLive       Spec from few initial states, with the fairness of the *)
(*                  running process                                        *)
(*   SpecStale      run_sync over a hash index that names a key whose      *)
(*                  object may have changed since                          *)
(*                                                                         *)
(* Optional values (Python's None / a missing dict key) are sequences of   *)
(* length at most one: <<>> is absent, <<v>> is present.                   *)
(***************************************************************************)
EXTENDS Integers, Sequences, FiniteSets, TLC

VARIABLES
    d_in,          \* SpecDecide: the arguments of choose_upload_action
    d_out,         \* SpecDecide: <<>> before the call, <<result>> after
    s_in,          \* SpecScan: the arguments of should_include
    s_out,         \* SpecScan: <<>> before the call, <<result>> after
    k_in,          \* SpecKey: a --dest value and two relative paths
    k_out,         \* SpecKey: <<>> before the calls, <<[dest, key1, key2]>> after
    entries,       \* ShaCache._entries: resolved path -> entry
    hash_index,    \* ShaCache._hash_index: sha256 -> s3 uri
    disk,          \* the snapshot file at the cache path: <<>> or <<document>>
    cache2,        \* SpecCache: a second ShaCache constructed from disk
    fresh,         \* SpecCache: "dirty" after a mutation, "saved" after save(), "loaded" once cache2 holds that save
    lastSet,       \* SpecCache: resolved path -> <<>> or <<[size, mtime, sha256]>> of the last set_sha
    c_ops,         \* SpecCache: number of cache operations performed
    saving,        \* SpecCache: where save() is, its temp file, the snapshot it found at the path
    args,          \* the command line: dest, source, profile, dry_run, delete, yes, content_dedupe, workers, isatty
    content,       \* file -> the sha256 of its bytes (what compute_sha256 returns)
    bucket,        \* the object store: key -> <<>> or <<[content, meta]>>
    phase,         \* where run_sync is: "start", "workers", "interrupted", "sweep", "save", "exited"
    loc,           \* file -> the locals of its process_file call, with its position pc
    run_hash_map,  \* run_sync's run_hash_map: sha256 -> s3 uri
    summary,       \* the Summary counters
    sweep,         \* the locals of maybe_delete_remote
    exit_code,     \* <<>> while running, <<n>> once the process has exited
    run_no,        \* number of runs started
    max_runs,      \* number of runs the behaviour may start
    faults,        \* failures the environment may still inject
    hist           \* history: the calls issued in this run, the counters written outside summary_lock, the previous run's result

cacheVars == <<entries, hash_index, disk>>

decideVars == <<d_in, d_out, s_in, s_out, k_in, k_out>>

cacheAuxVars == <<cache2, fresh, lastSet, c_ops, saving>>

runVars == <<args, content, bucket, phase, loc, run_hash_map, summary, sweep, exit_code,
             run_no, max_runs, faults, hist>>

vars == <<decideVars, cacheVars, cacheAuxVars, runVars>>

----------------------------------------------------------------------------
(* Option helpers. *)

None == <<>>

Some(v) == <<v>>

IsSome(o) == o # <<>>

Get(o) == o[1]

\* Python truthiness of an Optional[str]: None and "" are falsy.
Truthy(o) == IsSome(o) /\ Get(o) # ""

----------------------------------------------------------------------------
(* str(int) for the non-negative integers the model uses. *)

Digit(d) == SubSeq("0123456789", d + 1, d + 1)

RECURSIVE Str(_)
Str(n) == IF n < 10 THEN Digit(n) ELSE Str(n \div 10) \o Digit(n % 10)

----------------------------------------------------------------------------
(* choose_upload_action *)

Verdict(up, why) == [raised |-> FALSE, needs_upload |-> up, reason |-> why]

Raised(why) == [raised |-> TRUE, needs_upload |-> FALSE, reason |-> why]

EmptyMetadata == [sha256 |-> None, size |-> None, mtime |-> None]

\* `str(file_obj.size) == remote_size and str(file_obj.mtime) == remote_mtime`;
\* a tag that is absent equals no string.
StatMatches(metadata, fsize, fmtime) ==
    /\ IsSome(metadata.size)
    /\ IsSome(metadata.mtime)
    /\ Str(fsize) = Get(metadata.size)
    /\ Str(fmtime) = Get(metadata.mtime)

\* The hash rule of choose_upload_action.
HashVerdict(remote_sha, local_sha) ==
    IF ~IsSome(local_sha)
    THEN Raised("local_sha required when remote sha256 is present")
    ELSE IF Get(remote_sha) = Get(local_sha)
         THEN Verdict(FALSE, "remote sha256 match")
         ELSE Verdict(TRUE, "remote sha256 mismatch")

\* Mutant: the tags are consulted before the existence flag.
ChooseUploadActionTagsFirst(remote_exists, remote_metadata, fsize, fmtime, local_sha) ==
    LET metadata == IF IsSome(remote_metadata) THEN Get(remote_metadata) ELSE EmptyMetadata
    IN  IF Truthy(metadata.sha256) THEN HashVerdict(metadata.sha256, local_sha)
        ELSE IF StatMatches(metadata, fsize, fmtime) THEN Verdict(FALSE, "remote size+mtime match")
        ELSE IF ~remote_exists THEN Verdict(TRUE, "remote missing")
        ELSE Verdict(TRUE, "remote metadata mismatch")

\* Mutant: the size+mtime rule is tried before the hash rule.
ChooseUploadActionStatFirst(remote_exists, remote_metadata, fsize, fmtime, local_sha) ==
    LET metadata == IF IsSome(remote_metadata) THEN Get(remote_metadata) ELSE EmptyMetadata
    IN  IF ~remote_exists THEN Verdict(TRUE, "remote missing")
        ELSE IF StatMatches(metadata, fsize, fmtime) THEN Verdict(FALSE, "remote size+mtime match")
        ELSE IF Truthy(metadata.sha256) THEN HashVerdict(metadata.sha256, local_sha)
        ELSE Verdict(TRUE, "remote metadata mismatch")

\* Mutant: one matching tag is enough for the size+mtime rule.
ChooseUploadActionEitherTag(remote_exists, remote_metadata, fsize, fmtime, local_sha) ==
    LET metadata == IF IsSome(remote_metadata) THEN Get(remote_metadata) ELSE EmptyMetadata
    IN  IF ~remote_exists THEN Verdict(TRUE, "remote missing")
        ELSE IF Truthy(metadata.sha256) THEN HashVerdict(metadata.sha256, local_sha)
        ELSE IF \/ IsSome(metadata.size) /\ Str(fsize) = Get(metadata.size)
                \/ IsSome(metadata.mtime) /\ Str(fmtime) = Get(metadata.mtime)
             THEN Verdict(FALSE, "remote size+mtime match")
             ELSE Verdict(TRUE, "remote metadata mismatch")

\* Mutant: a matching remote hash is compared with != instead of ==.
ChooseUploadActionInverted(remote_exists, remote_metadata, fsize, fmtime, local_sha) ==
    LET metadata == IF IsSome(remote_metadata) THEN Get(remote_metadata) ELSE EmptyMetadata
    IN  IF ~remote_exists THEN Verdict(TRUE, "remote missing")
        ELSE IF Truthy(metadata.sha256)
             THEN IF ~IsSome(local_sha)
                  THEN Raised("local_sha required when remote sha256 is present")
                  ELSE IF Get(metadata.sha256) # Get(local_sha)
                       THEN Verdict(FALSE, "remote sha256 match")
                       ELSE Verdict(TRUE, "remote sha256 mismatch")
        ELSE IF StatMatches(metadata, fsize, fmtime) THEN Verdict(FALSE, "remote size+mtime match")
        ELSE Verdict(TRUE, "remote metadata mismatch")

\* remote_metadata is <<>> (None) or <<[sha256, size, mtime]>>, each tag optional.
ChooseUploadAction(remote_exists, remote_metadata, fsize, fmtime, local_sha) ==
    IF ~remote_exists THEN Verdict(TRUE, "remote missing")
    ELSE
        LET metadata == IF IsSome(remote_metadata) THEN Get(remote_metadata) ELSE EmptyMetadata
            remote_sha == metadata.sha256
            remote_size == metadata.size
            remote_mtime == metadata.mtime
        IN  IF Truthy(remote_sha) THEN HashVerdict(remote_sha, local_sha)
            ELSE IF remote_size # None /\ remote_mtime # None /\ StatMatches(metadata, fsize, fmtime)
                 THEN Verdict(FALSE, "remote size+mtime match")
                 ELSE Verdict(TRUE, "remote metadata mismatch")

----------------------------------------------------------------------------
(* ShaCache *)

\* Path.resolve(): "link_a" is a symlink to "a"; every other path is itself.
Resolve(path) == IF path = "link_a" THEN "a" ELSE path

DictGet(d, k) == IF k \in DOMAIN d THEN Some(d[k]) ELSE None

DictSet(d, k, v) == [x \in DOMAIN d \cup {k} |-> IF x = k THEN v ELSE d[x]]

DictPop(d, k) == [x \in DOMAIN d \ {k} |-> d[x]]

EmptyDict == [x \in {} |-> None]

\* Mutant: an entry is trusted on its size alone.
GetShaSizeOnly(ents, path, size, mtime) ==
    LET entry == DictGet(ents, Resolve(path))
    IN  IF ~IsSome(entry) THEN None
        ELSE IF Get(entry).size # size THEN None
        ELSE Some(Get(entry).sha256)

\* get_sha on the maps of a cache
GetSha(ents, path, size, mtime) ==
    LET entry == DictGet(ents, Resolve(path))
    IN  IF ~IsSome(entry) THEN None
        ELSE IF Get(entry).size # size \/ Get(entry).mtime # mtime THEN None
        ELSE Some(Get(entry).sha256)

\* set_sha: the new _entries
SetShaEntries(ents, path, size, mtime, sha256, s3_uri) ==
    DictSet(ents, Resolve(path),
            [size |-> size, mtime |-> mtime, sha256 |-> sha256,
             s3_uri |-> IF Truthy(s3_uri) THEN s3_uri ELSE None])

\* set_sha: the new _hash_index
SetShaIndex(idx, sha256, s3_uri) ==
    IF Truthy(s3_uri) THEN DictSet(idx, sha256, Get(s3_uri)) ELSE idx

GetCanonicalUri(idx, sha256) == DictGet(idx, sha256)

SetCanonicalUri(idx, sha256, s3_uri) ==
    IF Truthy(s3_uri) THEN DictSet(idx, sha256, Get(s3_uri)) ELSE DictPop(idx, sha256)

\* A JSON value in the snapshot file is an object, [object |-> its key/value
\* members], or something else: [array |-> its items].
JsonDict(members) == [object |-> members]

JsonList == [array |-> <<>>]

\* isinstance(value, dict)
IsDict(value) == "object" \in DOMAIN value

\* json.dump of a dict of strings
JsonObject(d) == JsonDict({<<k, d[k]>> : k \in DOMAIN d})

\* An entry as written: "s3_uri" is a member only when the entry has one.
JsonEntry(e) ==
    {<<"size", e.size>>, <<"mtime", e.mtime>>, <<"sha256", e.sha256>>}
        \cup (IF IsSome(e.s3_uri) THEN {<<"s3_uri", Get(e.s3_uri)>>} ELSE {})

\* Mutant: save() writes the entries and leaves the hash index out.
SerializeNoIndex(ents, idx) ==
    [version |-> 1,
     entries |-> JsonDict({<<k, JsonEntry(ents[k])>> : k \in DOMAIN ents}),
     hash_index |-> JsonDict({})]

\* The document save() writes.
Serialize(ents, idx) ==
    [version |-> 1,
     entries |-> JsonDict({<<k, JsonEntry(ents[k])>> : k \in DOMAIN ents}),
     hash_index |-> JsonObject(idx)]

\* json.loads of an object: the dict of its members.
ParseObject(members) ==
    [k \in {m[1] : m \in members} |-> (CHOOSE m \in members : m[1] = k)[2]]

\* dict.get on a parsed entry object
Member(obj, name) == LET d == ParseObject(obj) IN DictGet(d, name)

ParseEntry(obj) ==
    [size |-> Get(Member(obj, "size")), mtime |-> Get(Member(obj, "mtime")),
     sha256 |-> Get(Member(obj, "sha256")), s3_uri |-> Member(obj, "s3_uri")]

\* The file at the cache path is missing (<<>>), holds a snapshot document, or
\* is in one of these conditions:
\*   "unreadable"  read_text raises OSError (no permission, a directory)
\*   "not utf-8"   the bytes do not decode as UTF-8
\*   "not json"    the text is not JSON
\*   "json list"   the text is JSON and its top-level value is not an object
RawFiles == {[raw |-> r] : r \in {"unreadable", "not utf-8", "not json", "json list"}}

IsDocument(file) == IsSome(file) /\ "raw" \notin DOMAIN Get(file)

\* _load: the exception that leaves it, "" when it returns.  OSError and
\* JSONDecodeError are caught; the UnicodeDecodeError of read_text and the
\* AttributeError of raw.get on a value that is not a dict are not.
LoadRaises(file) ==
    IF ~IsSome(file) \/ IsDocument(file) THEN ""
    ELSE CASE Get(file).raw = "not utf-8" -> "UnicodeDecodeError"
           [] Get(file).raw = "json list" -> "AttributeError"
           [] OTHER -> ""

\* raw.get(name, {})
RawGet(doc, name) == IF name \in DOMAIN doc THEN doc[name] ELSE JsonDict({})

\* _load: the _entries it leaves; a missing file, a file it cannot read or parse
\* and a member that is not a dict leave the map empty.
LoadEntries(file) ==
    IF ~IsDocument(file) THEN EmptyDict
    ELSE LET member == RawGet(Get(file), "entries")
         IN  IF ~IsDict(member) THEN EmptyDict
             ELSE LET raw == ParseObject(member.object)
                  IN  [k \in DOMAIN raw |-> ParseEntry(raw[k])]

LoadHashIndex(file) ==
    IF ~IsDocument(file) THEN EmptyDict
    ELSE LET member == RawGet(Get(file), "hash_index")
         IN  IF ~IsDict(member) THEN EmptyDict ELSE ParseObject(member.object)

----------------------------------------------------------------------------
(* Bounds of the model. *)

\* The number of keys the store returns per listing page.
PageSize == 1

\* The number of failures the environment may inject in one behaviour.
MaxFaults == 1

\* The number of consecutive runs of the synchronizer.
MaxRuns == 2

\* The number of cache operations in one behaviour of SpecCache.
MaxCacheOps == 3

----------------------------------------------------------------------------
(* The command line: parse_s3_uri, resolve_inputs, create_s3_client. *)

StartsWith(str, prefix) ==
    Len(str) >= Len(prefix) /\ SubSeq(str, 1, Len(prefix)) = prefix

\* The position of the first occurrence of sub in str, 0 when there is none.
IndexOf(str, sub) ==
    LET hits == {i \in 1..Len(str) : StartsWith(SubSeq(str, i, Len(str)), sub)}
    IN  IF hits = {} THEN 0 ELSE CHOOSE i \in hits : \A j \in hits : i <= j

\* urlparse's netloc and path of what follows "//": the netloc runs to the
\* next "/", the path starts there.
NetlocAndPath(after, slash) ==
    [netloc |-> IF slash = 0 THEN after ELSE SubSeq(after, 1, slash - 1),
     path |-> IF slash = 0 THEN "" ELSE SubSeq(after, slash, Len(after))]

\* urlparse's netloc and path of what follows the scheme.
Authority(rest) ==
    IF StartsWith(rest, "//")
    THEN NetlocAndPath(SubSeq(rest, 3, Len(rest)), IndexOf(SubSeq(rest, 3, Len(rest)), "/"))
    ELSE [netloc |-> "", path |-> rest]

\* urlparse's result, from the scheme and from what follows it.
ParseResult(scheme, authority) ==
    [scheme |-> scheme, netloc |-> authority.netloc, path |-> authority.path]

\* urlparse, given the position of the first ":".
UrlParseAt(value, colon) ==
    IF colon > 1
    THEN ParseResult(SubSeq(value, 1, colon - 1), Authority(SubSeq(value, colon + 1, Len(value))))
    ELSE ParseResult("", Authority(value))

\* urlparse on values without query or fragment: the scheme before ":", the
\* netloc between "//" and the next "/", the path from there.
UrlParse(value) == UrlParseAt(value, IndexOf(value, ":"))

\* str.lstrip("/")
RECURSIVE LStripSlash(_)
LStripSlash(str) == IF StartsWith(str, "/") THEN LStripSlash(SubSeq(str, 2, Len(str))) ELSE str

EndsWithSlash(str) == Len(str) > 0 /\ SubSeq(str, Len(str), Len(str)) = "/"

\* Mutant: the prefix is left as the URI spells it.
WithSlashNever(prefix) == prefix

\* `if prefix and not prefix.endswith("/"): prefix = f"{prefix}/"`
WithSlash(prefix) == IF prefix # "" /\ ~EndsWithSlash(prefix) THEN prefix \o "/" ELSE prefix

\* parse_s3_uri after urlparse: the refusal test, the bucket, the prefix.
Destination(parsed) ==
    [raised |-> parsed.scheme # "s3" \/ parsed.netloc = "",
     bucket |-> parsed.netloc,
     prefix |-> WithSlash(LStripSlash(parsed.path))]

\* The same, the scheme not looked at.
DestinationAnyScheme(parsed) ==
    [raised |-> parsed.netloc = "",
     bucket |-> parsed.netloc,
     prefix |-> WithSlash(LStripSlash(parsed.path))]

\* Mutant: any URI with a bucket is taken, whatever its scheme.
ParseS3UriAnyScheme(value) == DestinationAnyScheme(UrlParse(value))

\* parse_s3_uri: the destination, or ValueError
ParseS3Uri(value) == Destination(UrlParse(value))

GoodDest == "s3://bucket/photos"

\* --dest values: the destination of the runs, a URI of another scheme, a URI
\* without a bucket.
Dests == {GoodDest, "http://bucket/photos", "s3:///photos"}

\* parse_s3_uri of every --dest value
ParsedDests == [value \in Dests |-> ParseS3Uri(value)]

\* --source values by what is at the path: a directory, nothing, a regular file.
Sources == {"dir", "missing", "file"}

\* --profile values: a profile of the credentials file, and one it does not hold.
Profiles == {"default", "unknown"}

\* resolve_inputs: ValueError for a source that is no directory, then
\* parse_s3_uri's.
ResolveInputsRaises(a) == a.source # "dir" \/ ParsedDests[a.dest].raised

\* create_s3_client: ProfileNotFound becomes ValueError
CreateS3ClientRaises(a) == a.profile = "unknown"

----------------------------------------------------------------------------
(* The local tree and the destination. *)

\* The scan yields the tree {a.jpg, b/c.jpg}, in this order.
Files == {1, 2}

\* The --workers values tried: one thread, and one thread per file.
WorkerCounts == {1, 2}

RelPaths == <<"a.jpg", "b/c.jpg">>

RelPosix(f) == RelPaths[f]

\* LocalFile.path; the scanned paths are their own resolved form.
PathOf(f) == "/src/" \o RelPosix(f)

FileSize(f) == 4 + f

FileMtime(f) == 12

Hashes == {"h1", "h2"}

\* parse_s3_uri("s3://bucket/photos"): the prefix gets its trailing slash.
\* The destination the command line names.
DestBucket == ParsedDests[GoodDest].bucket

DestPrefix == ParsedDests[GoodDest].prefix

\* S3Destination.key_for
KeyFor(destination, rel_posix) ==
    IF destination.prefix = "" THEN rel_posix ELSE destination.prefix \o rel_posix

\* S3Destination.uri_for_key
UriForKey(key) == "s3://" \o DestBucket \o "/" \o key

FileKey(f) == KeyFor(ParsedDests[GoodDest], RelPosix(f))

\* run_sync's local_keys
LocalKeys == {FileKey(f) : f \in Files}

\* A key under the destination prefix that no local file maps to.
OldKey == "photos/old.jpg"

\* The store's keys in the order a listing returns them (UTF-8 binary order).
KeyOrder == <<"photos/a.jpg", "photos/b/c.jpg", "photos/old.jpg">>

Keys == LocalKeys \cup {OldKey}

KeyRank(key) == CHOOSE i \in 1..Len(KeyOrder) : KeyOrder[i] = key

\* canonical.replace("s3://bucket/", "", 1) of a uri that starts with it
StripBucket(uri) ==
    LET head == "s3://" \o DestBucket \o "/" IN SubSeq(uri, Len(head) + 1, Len(uri))

----------------------------------------------------------------------------
(* The object store's answers, and the prober. *)

Tags(sha, size, mtime) == [sha256 |-> sha, size |-> size, mtime |-> mtime]

Object(c, meta) == [content |-> c, meta |-> meta]

Holds(store, key) == key \in DOMAIN store /\ IsSome(store[key])

\* The failures a head, put or delete call can meet: denied, throttled, unreachable.
HeadFaults == {"403", "SlowDown", "network"}

\* The error codes with which S3-compatible stores report a missing object.
MissingCodes == {"404", "NoSuchKey", "NotFound"}

\* What may happen to a head of key: "none" and the missing codes are the store's
\* truthful answers, the rest are failures.
HeadEvents(store, key) ==
    {"none"} \cup HeadFaults \cup (IF Holds(store, key) THEN {} ELSE MissingCodes)

\* head_object's response to a head of key under the event.
S3Head(store, key, event) ==
    IF event = "network" THEN [kind |-> "other_error", code |-> "", metadata |-> EmptyMetadata]
    ELSE IF event # "none" THEN [kind |-> "client_error", code |-> event, metadata |-> EmptyMetadata]
    ELSE IF Holds(store, key)
         THEN [kind |-> "ok", code |-> "", metadata |-> Get(store[key]).meta]
         ELSE [kind |-> "client_error", code |-> "404", metadata |-> EmptyMetadata]

\* What the store said, for the record: an object, no object, or a failure.
Heard(store, key, event) ==
    IF event \in HeadFaults THEN "failed" ELSE IF Holds(store, key) THEN "found" ELSE "missing"

NotFoundCodes == {"404", "NoSuchKey", "NotFound"}

\* Mutant: every failed head is taken for a missing object.
HeadObjectMetadataMissingAll(resp) ==
    IF resp.kind = "ok"
    THEN [raised |-> FALSE, exists |-> TRUE, metadata |-> Some(resp.metadata)]
    ELSE [raised |-> FALSE, exists |-> FALSE, metadata |-> None]

\* head_object_metadata: (exists, metadata), or the exception re-raised
HeadObjectMetadata(resp) ==
    IF resp.kind = "ok"
    THEN [raised |-> FALSE, exists |-> TRUE, metadata |-> Some(resp.metadata)]
    ELSE IF resp.kind = "client_error" /\ resp.code \in NotFoundCodes
         THEN [raised |-> FALSE, exists |-> FALSE, metadata |-> None]
         ELSE [raised |-> TRUE, exists |-> FALSE, metadata |-> None]

\* `remote_metadata and remote_metadata.get("sha256")`
HasRemoteSha(metadata) == IsSome(metadata) /\ Truthy(Get(metadata).sha256)

\* list_objects_v2: the keys under the prefix after the continuation token, one page.
Listed(store, token) ==
    {k \in DOMAIN store :
        /\ IsSome(store[k])
        /\ StartsWith(k, DestPrefix)
        /\ (IsSome(token) => KeyRank(k) > Get(token))}

RECURSIVE FirstKeys(_, _)
FirstKeys(ks, n) ==
    IF n = 0 \/ ks = {} THEN <<>>
    ELSE LET k == CHOOSE x \in ks : \A y \in ks : KeyRank(x) <= KeyRank(y)
         IN  <<k>> \o FirstKeys(ks \ {k}, n - 1)

ListObjectsV2(store, token) ==
    LET all == Listed(store, token)
        page == FirstKeys(all, PageSize)
    IN  [Contents |-> page,
         IsTruncated |-> Cardinality(all) > PageSize,
         NextContinuationToken |-> IF page = <<>> THEN None ELSE Some(KeyRank(page[Len(page)]))]

----------------------------------------------------------------------------
(* run_sync: start of a run. *)

\* heard and verified record what the store answered to the probe of the file's
\* key and of its dedup candidate: "found", "missing" or "failed".
IdleLocals ==
    [pc |-> "queued", exists |-> FALSE, metadata |-> None, reason |-> "", hashed |-> FALSE,
     sha |-> None, canonical |-> None, outcome |-> "", heard |-> "", verified |-> ""]

ZeroSummary ==
    [scanned |-> 0, uploaded |-> 0, uploaded_bytes |-> 0, skipped |-> 0,
     duplicates |-> 0, errors |-> 0, deleted |-> 0]

IdleSweep ==
    [listed |-> FALSE, continuation |-> None, page |-> <<>>, truncated |-> FALSE,
     deleted |-> 0, errors |-> 0]

\* The keys put, deleted and probed in this run, the keys the operator was
\* asked about and the keys the operator said yes to.
NoCalls == [puts |-> {}, deletes |-> {}, heads |-> {}, prompts |-> {}, affirmed |-> {}]

\* What the finished process leaves for the comparison with the next run.
RunResult == [disk |-> disk, summary |-> summary, exit_code |-> exit_code, crashed |-> hist.crashed]

\* Mutant: the unconfirmed non-interactive delete is let through.
RefusedNever(a) == FALSE

\* `args.delete and not args.yes and not args.dry_run and not sys.stdin.isatty()`
Refused(a) == a.delete /\ ~a.yes /\ ~a.dry_run /\ ~a.isatty

\* The exception that leaves the first lines of run_sync, "" when none does:
\* resolve_inputs, then ShaCache(path), then create_s3_client.
StartupRaises(a, file) ==
    IF ResolveInputsRaises(a) THEN "ValueError"
    ELSE IF LoadRaises(file) # "" THEN LoadRaises(file)
    ELSE IF CreateS3ClientRaises(a) THEN "ValueError"
    ELSE ""

\* main: ValueError and its subclasses (UnicodeDecodeError is one) are reported
\* and become exit code 2; any other exception ends the process with a
\* traceback and exit code 1.
ExitCodeOf(exception) ==
    IF exception \in {"ValueError", "UnicodeDecodeError"} THEN 2 ELSE 1

\* A process starts: the inputs are resolved, the cache is constructed from the
\* snapshot file, the client is created, the unconfirmed non-interactive delete
\* is refused, the tree is scanned.
StartRun ==
    /\ phase \in {"start", "exited"}
    /\ run_no < max_runs
    /\ run_no' = run_no + 1
    /\ entries' = IF ResolveInputsRaises(args) THEN EmptyDict ELSE LoadEntries(disk)
    /\ hash_index' = IF ResolveInputsRaises(args) THEN EmptyDict ELSE LoadHashIndex(disk)
    /\ run_hash_map' = EmptyDict
    /\ sweep' = IdleSweep
    /\ loc' = [f \in Files |-> IdleLocals]
    /\ LET raises == StartupRaises(args, disk)
       IN  /\ hist' = [calls |-> NoCalls, store0 |-> bucket,
                        crashed |-> raises # "" /\ ExitCodeOf(raises) = 1,
                        interrupted |-> FALSE,
                        bare |-> IF raises = "" /\ ~Refused(args) THEN {"scanned"} ELSE {},
                        prev |-> IF phase = "exited" THEN Some(RunResult) ELSE None]
           /\ IF raises # ""
              THEN /\ phase' = "exited"
                   /\ exit_code' = Some(ExitCodeOf(raises))
                   /\ summary' = ZeroSummary
              ELSE IF Refused(args)
              THEN /\ phase' = "exited"
                   /\ exit_code' = Some(2)
                   /\ summary' = ZeroSummary
              ELSE /\ phase' = "workers"
                   /\ exit_code' = None
                   /\ summary' = [ZeroSummary EXCEPT !.scanned = Cardinality(Files)]
    /\ UNCHANGED <<disk, args, content, bucket, faults, max_runs, decideVars, cacheAuxVars>>

----------------------------------------------------------------------------
(* get_local_sha *)

\* Mutant: the computed hash is returned but not stored.
GetLocalShaNoStore(ents, path, size, mtime, digest) ==
    IF Truthy(GetSha(ents, path, size, mtime))
    THEN [sha |-> Get(GetSha(ents, path, size, mtime)), entries |-> ents, read |-> FALSE]
    ELSE [sha |-> digest, entries |-> ents, read |-> TRUE]

\* get_local_sha on a file whose content hashes to digest, when hashing
\* succeeds: the value returned, the cache's entries afterwards, and whether
\* compute_sha256 read the file.
GetLocalSha(ents, path, size, mtime, digest) ==
    IF Truthy(GetSha(ents, path, size, mtime))
    THEN [sha |-> Get(GetSha(ents, path, size, mtime)), entries |-> ents, read |-> FALSE]
    ELSE [sha |-> digest,
          entries |-> SetShaEntries(ents, path, size, mtime, digest, None),
          read |-> TRUE]

CachedSha(ents, f) == GetSha(ents, PathOf(f), FileSize(f), FileMtime(f))

\* The value get_local_sha returns when hashing succeeds.
LocalSha(ents, f) == GetLocalSha(ents, PathOf(f), FileSize(f), FileMtime(f), content[f]).sha

\* The entries after get_local_sha: a miss stores the computed hash without a uri.
LocalShaEntries(ents, f) ==
    GetLocalSha(ents, PathOf(f), FileSize(f), FileMtime(f), content[f]).entries

\* compute_sha256 reads the file only on a cache miss.
ReadsFile(ents, f) == GetLocalSha(ents, PathOf(f), FileSize(f), FileMtime(f), content[f]).read

----------------------------------------------------------------------------
(* run_sync.process_file.  A worker's steps are split where it reads or    *)
(* writes something another worker reads or writes: the hash index, the    *)
(* run-scoped hash map and the store's objects.  The probe of the file's   *)
(* own key, the hashing of the file and the update of the file's own cache *)
(* entry touch nothing another worker uses, and the counters are read only *)
(* after the executor has joined, so they ride with the neighbouring step. *)

\* The executor runs the submitted files: in the `with` block, or in its exit
\* (shutdown(wait=True)) when KeyboardInterrupt is on its way out of the block.
Working == phase \in {"workers", "interrupted"}

Active == {f \in Files : loc[f].pc \notin {"queued", "done"}}

\* The executor hands the files to max(1, workers) threads in submission order.
CanStart(f) ==
    /\ \A g \in Files : g < f => loc[g].pc # "queued"
    /\ Cardinality(Active) < (IF args.workers < 1 THEN 1 ELSE args.workers)

\* Mutant: the increment is the one of a thread that read the counters before
\* any other thread wrote them.
CountedFromZero(s, f, outcome) ==
    CASE outcome = "uploaded" -> [s EXCEPT !.uploaded = 1, !.uploaded_bytes = FileSize(f)]
      [] outcome = "skipped" -> [s EXCEPT !.skipped = 1]
      [] outcome = "duplicate" -> [s EXCEPT !.duplicates = 1]
      [] outcome = "error" -> [s EXCEPT !.errors = 1]

\* Mutant: the upload is counted before the transfer is attempted, so a file
\* whose processing fails is counted as uploaded too.
CountedBeforeTransfer(s, f, outcome) ==
    CASE outcome = "uploaded" -> [s EXCEPT !.uploaded = @ + 1, !.uploaded_bytes = @ + FileSize(f)]
      [] outcome = "skipped" -> [s EXCEPT !.skipped = @ + 1]
      [] outcome = "duplicate" -> [s EXCEPT !.duplicates = @ + 1]
      [] outcome = "error" -> [s EXCEPT !.errors = @ + 1, !.uploaded = @ + 1,
                                        !.uploaded_bytes = @ + FileSize(f)]

\* Mutant: the skip path returns before it counts.
CountedNoSkip(s, f, outcome) ==
    CASE outcome = "uploaded" -> [s EXCEPT !.uploaded = @ + 1, !.uploaded_bytes = @ + FileSize(f)]
      [] outcome = "skipped" -> s
      [] outcome = "duplicate" -> [s EXCEPT !.duplicates = @ + 1]
      [] outcome = "error" -> [s EXCEPT !.errors = @ + 1]

\* Mutant: a duplicate is counted as an upload.
CountedDuplicateAsUpload(s, f, outcome) ==
    CASE outcome \in {"uploaded", "duplicate"} ->
             [s EXCEPT !.uploaded = @ + 1, !.uploaded_bytes = @ + FileSize(f)]
      [] outcome = "skipped" -> [s EXCEPT !.skipped = @ + 1]
      [] outcome = "error" -> [s EXCEPT !.errors = @ + 1]

\* The counter of the file's outcome, under summary_lock.
Counted(s, f, outcome) ==
    CASE outcome = "uploaded" -> [s EXCEPT !.uploaded = @ + 1, !.uploaded_bytes = @ + FileSize(f)]
      [] outcome = "skipped" -> [s EXCEPT !.skipped = @ + 1]
      [] outcome = "duplicate" -> [s EXCEPT !.duplicates = @ + 1]
      [] outcome = "error" -> [s EXCEPT !.errors = @ + 1]

\* Mutant: an exception leaves process_file and its future never completes.
FinishedUnlessRaised(l, outcome) ==
    IF outcome = "error" THEN [l EXCEPT !.pc = "raised", !.outcome = outcome]
    ELSE [l EXCEPT !.pc = "done", !.outcome = outcome]

\* process_file returns (or its except clause has run): the locals at the end.
Finished(l, outcome) == [l EXCEPT !.pc = "done", !.outcome = outcome]

RunUnchanged ==
    <<args, content, phase, exit_code, run_no, max_runs, decideVars, cacheAuxVars, disk>>

\* The environment injects n failures.
Inject(n) == faults >= n /\ faults' = faults - n

\* Mutant: the local hash is never obtained before the decision.
WantsShaNever(exists, metadata) == FALSE

\* Mutant: the local hash is obtained before every decision.
WantsShaAlways(exists, metadata) == TRUE

\* `if exists and remote_metadata and remote_metadata.get("sha256")`
WantsSha(exists, metadata) == exists /\ HasRemoteSha(metadata)

\* Mutant: the resolver is tried whether or not the operator asked for it.
DedupEngagedIfMissing(content_dedupe, exists) == ~exists

\* Mutant: the resolver is tried for every file that needs an upload.
DedupEngagedAlways(content_dedupe, exists) == TRUE

\* `if args.content_dedupe and not exists`
DedupEngaged(content_dedupe, exists) == content_dedupe /\ ~exists

\* From the head of process_file to its first shared access: the probe of the
\* file's key, the local hash when the remote carries one, the verdict, and the
\* local hash the dedup resolver starts with.
Start(f) ==
    /\ Working
    /\ loc[f].pc = "queued"
    /\ CanStart(f)
    /\ \E fault \in HeadEvents(bucket, FileKey(f)), hash_fails \in BOOLEAN :
        LET r == HeadObjectMetadata(S3Head(bucket, FileKey(f), fault))
            wants_sha == ~r.raised /\ WantsSha(r.exists, r.metadata)
            sha1 == IF wants_sha THEN Some(LocalSha(entries, f)) ELSE None
            ents1 == IF wants_sha THEN LocalShaEntries(entries, f) ELSE entries
            v == ChooseUploadAction(r.exists, r.metadata, FileSize(f), FileMtime(f), sha1)
            dedup == /\ ~r.raised /\ ~v.raised /\ v.needs_upload
                     /\ DedupEngaged(args.content_dedupe, r.exists)
            reads == (wants_sha \/ dedup) /\ ReadsFile(entries, f)
            l == [loc[f] EXCEPT !.exists = r.exists, !.metadata = r.metadata,
                                !.reason = IF r.raised \/ hash_fails THEN "" ELSE v.reason,
                                !.hashed = wants_sha,
                                !.heard = Heard(bucket, FileKey(f), fault)]
        IN  /\ hash_fails => (reads /\ fault \notin HeadFaults)
            /\ Inject((IF fault \in HeadFaults THEN 1 ELSE 0) + (IF hash_fails THEN 1 ELSE 0))
            /\ IF r.raised \/ hash_fails
               THEN /\ entries' = entries
                    /\ loc' = [loc EXCEPT ![f] = Finished(l, "error")]
                    /\ summary' = Counted(summary, f, "error")
               ELSE IF v.raised
               THEN /\ entries' = ents1
                    /\ loc' = [loc EXCEPT ![f] = Finished(l, "error")]
                    /\ summary' = Counted(summary, f, "error")
               ELSE IF ~v.needs_upload
               THEN /\ entries' = ents1
                    /\ IF HasRemoteSha(r.metadata)
                       THEN /\ loc' = [loc EXCEPT ![f] = [l EXCEPT !.pc = "skip_cache", !.sha = sha1]]
                            /\ summary' = summary
                       ELSE /\ loc' = [loc EXCEPT ![f] = Finished(l, "skipped")]
                            /\ summary' = Counted(summary, f, "skipped")
               ELSE IF dedup
               THEN /\ entries' = LocalShaEntries(ents1, f)
                    /\ loc' = [loc EXCEPT ![f] = [l EXCEPT !.pc = "dd_map",
                                                          !.sha = Some(LocalSha(ents1, f))]]
                    /\ summary' = summary
               ELSE /\ entries' = ents1
                    /\ loc' = [loc EXCEPT ![f] = [l EXCEPT !.pc = "upload", !.sha = sha1]]
                    /\ summary' = summary
    /\ hist' = [hist EXCEPT !.calls.heads = @ \cup {FileKey(f)}]
    /\ UNCHANGED <<hash_index, bucket, run_hash_map, sweep, RunUnchanged>>

\* SKIP with a remote hash: cache.set_sha(..., remote sha, s3_uri=s3_uri)
SkipCache(f) ==
    /\ Working
    /\ loc[f].pc = "skip_cache"
    /\ LET sha == Get(Get(loc[f].metadata).sha256)
           uri == Some(UriForKey(FileKey(f)))
       IN  /\ entries' = SetShaEntries(entries, PathOf(f), FileSize(f), FileMtime(f), sha, uri)
           /\ hash_index' = SetShaIndex(hash_index, sha, uri)
    /\ loc' = [loc EXCEPT ![f].pc = "skip_map"]
    /\ UNCHANGED <<bucket, run_hash_map, summary, sweep, faults, hist, RunUnchanged>>

\* run_hash_map[sha] = s3_uri on the skip path, then summary.skipped += 1
SkipMap(f) ==
    /\ Working
    /\ loc[f].pc = "skip_map"
    /\ run_hash_map' = DictSet(run_hash_map, Get(Get(loc[f].metadata).sha256), UriForKey(FileKey(f)))
    /\ loc' = [loc EXCEPT ![f] = Finished(@, "skipped")]
    /\ summary' = Counted(summary, f, "skipped")
    /\ UNCHANGED <<entries, hash_index, bucket, sweep, faults, hist, RunUnchanged>>

----------------------------------------------------------------------------
(* The dedup resolver: `if args.content_dedupe and not exists`. *)

\* `canonical and canonical.startswith(f"s3://{destination.bucket}/")`
Verifiable(canonical) ==
    Truthy(canonical) /\ StartsWith(Get(canonical), "s3://" \o DestBucket \o "/")

\* run_canonical = run_hash_map.get(sha), under hash_map_lock
DdMap(f) ==
    /\ Working
    /\ loc[f].pc = "dd_map"
    /\ LET run_canonical == DictGet(run_hash_map, Get(loc[f].sha))
       IN  loc' = IF Truthy(run_canonical)
                  THEN [loc EXCEPT ![f].canonical = run_canonical,
                                   ![f].pc = IF Verifiable(run_canonical) THEN "dd_verify" ELSE "upload"]
                  ELSE [loc EXCEPT ![f].pc = "dd_index"]
    /\ UNCHANGED <<entries, hash_index, bucket, run_hash_map, summary, sweep, faults, hist,
                   RunUnchanged>>

\* canonical = cache.get_canonical_uri(sha), when the run map had none
DdIndex(f) ==
    /\ Working
    /\ loc[f].pc = "dd_index"
    /\ LET canonical == GetCanonicalUri(hash_index, Get(loc[f].sha))
       IN  loc' = [loc EXCEPT ![f].canonical = canonical,
                              ![f].pc = IF Verifiable(canonical) THEN "dd_verify" ELSE "upload"]
    /\ UNCHANGED <<entries, hash_index, bucket, run_hash_map, summary, sweep, faults, hist,
                   RunUnchanged>>

\* Mutant: the candidate is trusted whatever the store answered.
AfterVerifyTrusting(exists) == "dd_cache"

\* `if key_exists(...)`: the duplicate branch, or the scrub of the stale entry
AfterVerify(exists) == IF exists THEN "dd_cache" ELSE "dd_scrub"

\* key_exists(client, bucket, canonical_key)
DdVerify(f) ==
    /\ Working
    /\ loc[f].pc = "dd_verify"
    /\ \E fault \in HeadEvents(bucket, StripBucket(Get(loc[f].canonical))) :
        /\ Inject(IF fault \in HeadFaults THEN 1 ELSE 0)
        /\ LET canonical_key == StripBucket(Get(loc[f].canonical))
               r == HeadObjectMetadata(S3Head(bucket, canonical_key, fault))
               l == [loc[f] EXCEPT !.verified = Heard(bucket, canonical_key, fault)]
           IN  /\ IF r.raised
                  THEN /\ loc' = [loc EXCEPT ![f] = Finished(l, "error")]
                       /\ summary' = Counted(summary, f, "error")
                  ELSE /\ loc' = [loc EXCEPT ![f] = [l EXCEPT !.pc = AfterVerify(r.exists)]]
                       /\ summary' = summary
               /\ hist' = [hist EXCEPT !.calls.heads = @ \cup {canonical_key}]
    /\ UNCHANGED <<entries, hash_index, bucket, run_hash_map, sweep, RunUnchanged>>

\* DUPLICATE: cache.set_sha(..., sha, s3_uri=canonical), then summary.duplicates += 1
DdCache(f) ==
    /\ Working
    /\ loc[f].pc = "dd_cache"
    /\ entries' = SetShaEntries(entries, PathOf(f), FileSize(f), FileMtime(f),
                                Get(loc[f].sha), loc[f].canonical)
    /\ hash_index' = SetShaIndex(hash_index, Get(loc[f].sha), loc[f].canonical)
    /\ loc' = [loc EXCEPT ![f] = Finished(@, "duplicate")]
    /\ summary' = Counted(summary, f, "duplicate")
    /\ UNCHANGED <<bucket, run_hash_map, sweep, faults, hist, RunUnchanged>>

\* The candidate is gone: cache.set_canonical_uri(sha, None)
DdScrub(f) ==
    /\ Working
    /\ loc[f].pc = "dd_scrub"
    /\ hash_index' = SetCanonicalUri(hash_index, Get(loc[f].sha), None)
    /\ loc' = [loc EXCEPT ![f].pc = "upload"]
    /\ UNCHANGED <<entries, bucket, run_hash_map, summary, sweep, faults, hist, RunUnchanged>>

----------------------------------------------------------------------------
(* The transfer and what follows it. *)

\* Mutant: the object is written without tags.
PutUntagged(store, f, sha256) ==
    [store EXCEPT ![FileKey(f)] = Some(Object(content[f], EmptyMetadata))]

\* upload_file with the three tags of upload_one
Put(store, f, sha256) ==
    [store EXCEPT ![FileKey(f)] =
        Some(Object(content[f],
                    Tags(Some(sha256), Some(Str(FileSize(f))), Some(Str(FileMtime(f))))))]

\* sha_to_upload = local_sha_for_decision or get_local_sha(...); upload_one(...)
Upload(f) ==
    /\ Working
    /\ loc[f].pc = "upload"
    /\ LET have == Truthy(loc[f].sha)
           sha_to_upload == IF have THEN Get(loc[f].sha) ELSE LocalSha(entries, f)
       IN  \/ /\ entries' = IF have THEN entries ELSE LocalShaEntries(entries, f)
              /\ loc' = [loc EXCEPT ![f].pc = "up_cache", ![f].sha = Some(sha_to_upload)]
              /\ faults' = faults
              /\ summary' = summary
              /\ IF args.dry_run
                 THEN bucket' = bucket /\ hist' = hist
                 ELSE /\ bucket' = Put(bucket, f, sha_to_upload)
                      /\ hist' = [hist EXCEPT !.calls.puts = @ \cup {FileKey(f)}]
           \/ \* compute_sha256 fails: nothing was stored, nothing was sent
              /\ ~have
              /\ ReadsFile(entries, f)
              /\ Inject(1)
              /\ loc' = [loc EXCEPT ![f] = Finished(@, "error")]
              /\ summary' = Counted(summary, f, "error")
              /\ UNCHANGED <<entries, bucket, hist>>
           \/ \* upload_file fails: the hash is in the cache, the object is unchanged
              /\ ~args.dry_run
              /\ Inject(1)
              /\ entries' = IF have THEN entries ELSE LocalShaEntries(entries, f)
              /\ loc' = [loc EXCEPT ![f] = Finished(@, "error")]
              /\ summary' = Counted(summary, f, "error")
              /\ bucket' = bucket
              /\ hist' = [hist EXCEPT !.calls.puts = @ \cup {FileKey(f)}]
    /\ UNCHANGED <<hash_index, run_hash_map, sweep, RunUnchanged>>

\* cache.set_sha(..., sha_to_upload, s3_uri=s3_uri) after a successful upload_one
UpCache(f) ==
    /\ Working
    /\ loc[f].pc = "up_cache"
    /\ LET uri == Some(UriForKey(FileKey(f)))
       IN  /\ entries' = SetShaEntries(entries, PathOf(f), FileSize(f), FileMtime(f),
                                       Get(loc[f].sha), uri)
           /\ hash_index' = SetShaIndex(hash_index, Get(loc[f].sha), uri)
    /\ loc' = [loc EXCEPT ![f].pc = "up_map"]
    /\ UNCHANGED <<bucket, run_hash_map, summary, sweep, faults, hist, RunUnchanged>>

\* run_hash_map[sha_to_upload] = s3_uri, then summary.uploaded += 1 and the bytes
UpMap(f) ==
    /\ Working
    /\ loc[f].pc = "up_map"
    /\ run_hash_map' = DictSet(run_hash_map, Get(loc[f].sha), UriForKey(FileKey(f)))
    /\ loc' = [loc EXCEPT ![f] = Finished(@, "uploaded")]
    /\ summary' = Counted(summary, f, "uploaded")
    /\ UNCHANGED <<entries, hash_index, bucket, sweep, faults, hist, RunUnchanged>>

----------------------------------------------------------------------------
(* After the executor: the sweep, the save, the exit. *)

\* The `with ThreadPoolExecutor` block ends when every future has completed.
\* Mutant: the block ends as soon as every file has been handed to a thread.
AllFuturesStarted == \A f \in Files : loc[f].pc # "queued"

\* executor.shutdown(wait=True): every submitted future has finished.
AllFuturesCompleted == \A f \in Files : loc[f].pc = "done"

\* The block is left normally, or by the KeyboardInterrupt that main turns into
\* exit code 130.
JoinWorkers ==
    /\ Working
    /\ AllFuturesCompleted
    /\ IF phase = "interrupted"
       THEN phase' = "exited" /\ exit_code' = Some(130)
       ELSE phase' = (IF args.delete THEN "sweep" ELSE "save") /\ exit_code' = exit_code
    /\ UNCHANGED <<cacheVars, decideVars, cacheAuxVars, args, content, bucket, loc, run_hash_map,
                   summary, sweep, run_no, max_runs, faults, hist>>

\* Ctrl-C: KeyboardInterrupt is raised in the main thread, wherever run_sync is.
Interrupt ==
    /\ phase \in {"workers", "sweep", "save"}
    /\ Inject(1)
    /\ IF phase = "workers"
       THEN phase' = "interrupted" /\ exit_code' = exit_code
       ELSE phase' = "exited" /\ exit_code' = Some(130)
    /\ hist' = [hist EXCEPT !.interrupted = TRUE]
    /\ UNCHANGED <<cacheVars, decideVars, cacheAuxVars, args, content, bucket, loc, run_hash_map,
                   summary, sweep, run_no, max_runs>>

\* An exception nothing catches ends the process with a traceback.
Crash ==
    /\ phase' = "exited"
    /\ exit_code' = Some(1)
    /\ hist' = [hist EXCEPT !.crashed = TRUE]

\* `summary.deleted += deleted` and `summary.errors += delete_errors` are
\* written by the main thread, outside summary_lock.
SweepCounted(h) == [h EXCEPT !.bare = @ \cup {"deleted", "errors"}]

\* maybe_delete_remote: client.list_objects_v2(**kwargs)
SweepList ==
    /\ phase = "sweep"
    /\ sweep.page = <<>>
    /\ ~sweep.listed \/ sweep.truncated
    /\ \/ /\ LET resp == ListObjectsV2(bucket, sweep.continuation)
             IN  IF resp.Contents = <<>> /\ ~resp.IsTruncated
                 THEN /\ sweep' = [sweep EXCEPT !.listed = TRUE, !.truncated = FALSE]
                      /\ summary' = [summary EXCEPT !.deleted = @ + sweep.deleted,
                                                    !.errors = @ + sweep.errors]
                      /\ hist' = SweepCounted(hist)
                      /\ phase' = "save"
                 ELSE /\ sweep' = [sweep EXCEPT !.listed = TRUE, !.page = resp.Contents,
                                                !.truncated = resp.IsTruncated,
                                                !.continuation = resp.NextContinuationToken]
                      /\ UNCHANGED <<summary, phase, hist>>
          /\ UNCHANGED <<faults, exit_code>>
       \/ /\ faults > 0
          /\ faults' = faults - 1
          /\ Crash
          /\ UNCHANGED <<sweep, summary>>
    /\ UNCHANGED <<cacheVars, decideVars, cacheAuxVars, args, content, bucket, loc, run_hash_map,
                   run_no, max_runs>>

\* Mutant: the sweep never asks.
RequireConfirmationNever(a) == FALSE

\* `require_confirmation = not args.yes and not args.dry_run`
RequireConfirmation(a) == ~a.yes /\ ~a.dry_run

\* The sweep's locals once the item at the head of the page is dealt with.
NextItem(sw) == [sw EXCEPT !.page = Tail(@)]

\* Mutant: the loop ends with the first page.
PageDoneNoContinuation(sw) == Len(sw.page) = 1

\* The loop leaves the page: `if not resp.get("IsTruncated"): break`, then the return.
PageDone(sw) == Len(sw.page) = 1 /\ ~sw.truncated

\* Mutant: the sweep does not look at dry_run.
ItemActionIgnoresDryRun(key, local_keys, dry_run, require_confirmation, answer, fault) ==
    IF key \in local_keys THEN "keep"
    ELSE IF require_confirmation /\ answer \notin {"y", "yes"} THEN "keep"
    ELSE IF fault = "none" THEN "delete"
    ELSE IF fault = "network" THEN "crash"
    ELSE "error"

\* Mutant: the `key in local_keys` test is missing.
ItemActionNoLocalTest(key, local_keys, dry_run, require_confirmation, answer, fault) ==
    IF dry_run THEN "log"
    ELSE IF require_confirmation /\ answer \notin {"y", "yes"} THEN "keep"
    ELSE IF fault = "none" THEN "delete"
    ELSE IF fault = "network" THEN "crash"
    ELSE "error"

\* What maybe_delete_remote does with one listed key.
\*   "keep"    the key is local, or the operator declined
\*   "log"     dry-run: logged and counted, no call
\*   "delete"  delete_object succeeds
\*   "error"   delete_object raises ClientError
ItemAction(key, local_keys, dry_run, require_confirmation, answer, fault) ==
    IF key \in local_keys THEN "keep"
    ELSE IF dry_run THEN "log"
    ELSE IF require_confirmation /\ answer \notin {"y", "yes"} THEN "keep"
    ELSE IF fault = "none" THEN "delete"
    ELSE IF fault = "network" THEN "crash"
    ELSE "error"

Answers == {"y", "yes", "", "n"}

SweepItem ==
    /\ phase = "sweep"
    /\ sweep.page # <<>>
    /\ LET key == sweep.page[1] IN
       \E answer \in Answers, fault \in {"none"} \cup HeadFaults :
          LET act == ItemAction(key, LocalKeys, args.dry_run, RequireConfirmation(args),
                                answer, fault)
              calls == act \in {"delete", "error", "crash"}
              asked == RequireConfirmation(args) /\ key \notin LocalKeys /\ ~args.dry_run
              h == [hist EXCEPT
                       !.calls.prompts = IF asked THEN @ \cup {key} ELSE @,
                       !.calls.affirmed = IF asked /\ answer \in {"y", "yes"}
                                          THEN @ \cup {key} ELSE @]
              sw == [NextItem(sweep) EXCEPT
                        !.deleted = IF act \in {"log", "delete"} THEN @ + 1 ELSE @,
                        !.errors = IF act = "error" THEN @ + 1 ELSE @]
          IN  /\ IF calls /\ fault # "none" THEN faults > 0 /\ faults' = faults - 1
                 ELSE fault = "none" /\ faults' = faults
              /\ asked \/ answer = ""
              /\ bucket' = IF act = "delete" THEN [bucket EXCEPT ![key] = None] ELSE bucket
              /\ IF act = "crash"
                 THEN /\ phase' = "exited"
                      /\ exit_code' = Some(1)
                      /\ hist' = [h EXCEPT !.crashed = TRUE, !.calls.deletes = @ \cup {key}]
                      /\ UNCHANGED <<sweep, summary>>
                 ELSE /\ sweep' = sw
                      /\ exit_code' = exit_code
                      /\ LET h2 == IF calls THEN [h EXCEPT !.calls.deletes = @ \cup {key}] ELSE h
                         IN  IF PageDone(sweep)
                             THEN /\ summary' = [summary EXCEPT !.deleted = @ + sw.deleted,
                                                                !.errors = @ + sw.errors]
                                  /\ hist' = SweepCounted(h2)
                                  /\ phase' = "save"
                             ELSE /\ hist' = h2
                                  /\ UNCHANGED <<summary, phase>>
    /\ UNCHANGED <<cacheVars, decideVars, cacheAuxVars, args, content, loc, run_hash_map, run_no,
                   max_runs>>

\* Mutant: the run reports success whatever it counted.
ReturnCodeAlwaysZero(s) == 0

\* `return 1 if summary.errors else 0`
ReturnCode(s) == IF s.errors # 0 THEN 1 ELSE 0

\* cache.save(), the summary line and the return value of run_sync
SaveCache ==
    /\ phase = "save"
    /\ \/ /\ disk' = Some(Serialize(entries, hash_index))
          /\ phase' = "exited"
          /\ exit_code' = Some(ReturnCode(summary))
          /\ UNCHANGED <<faults, hist>>
       \/ /\ faults > 0
          /\ faults' = faults - 1
          /\ disk' = disk
          /\ Crash
    /\ UNCHANGED <<entries, hash_index, decideVars, cacheAuxVars, args, content, bucket, loc,
                   run_hash_map, summary, sweep, run_no, max_runs>>

----------------------------------------------------------------------------
(* Spec: the runs of the synchronizer. *)

DecideIdle ==
    d_in = None /\ d_out = None /\ s_in = None /\ s_out = None /\ k_in = None /\ k_out = None

\* save() is not running, and its last call, if any, returned.
NotSaving == [pc |-> "idle", tmp |-> None, prev |-> None, failed |-> FALSE]

\* save() raised (or the process died in it): no temp file is left in use.
SaveFailed(sv, file) == [pc |-> "idle", tmp |-> None, prev |-> file, failed |-> TRUE]

CacheAuxIdle ==
    cache2 = None /\ fresh = "dirty" /\ lastSet = EmptyDict /\ c_ops = 0 /\ saving = NotSaving

\* The objects a destination key may hold before the first run.
InitialObjects(f) ==
    {None,
     Some(Object("h1", Tags(Some("h1"), Some(Str(FileSize(f))), Some(Str(FileMtime(f)))))),
     Some(Object("h2", Tags(Some("h2"), Some(Str(FileSize(f))), Some(Str(FileMtime(f)))))),
     Some(Object("h1", Tags(None, Some(Str(FileSize(f))), Some(Str(FileMtime(f)))))),
     Some(Object("h1", EmptyMetadata))}

\* A cache written by earlier runs: every file hashed at its current stat, or none.
InitialEntries ==
    {EmptyDict,
     [p \in {PathOf(f) : f \in Files} |->
        LET f == CHOOSE g \in Files : PathOf(g) = p
        IN  [size |-> FileSize(f), mtime |-> FileMtime(f), sha256 |-> content[f], s3_uri |-> None]]}

InitialIndexes == {EmptyDict, [h \in {"h1"} |-> UriForKey(OldKey)]}

\* The snapshot file before the first run: missing, or written by an earlier run.
InitialSnapshots ==
    {None} \cup {Some(Serialize(ents, idx)) : ents \in InitialEntries \ {EmptyDict}, idx \in InitialIndexes}
           \cup {Some(Serialize(EmptyDict, idx)) : idx \in InitialIndexes \ {EmptyDict}}

\* A command line whose source, destination and profile are all usable.
ValidConfig(a) == a.dest = GoodDest /\ a.source = "dir" /\ a.profile = "default"

\* The command lines: at most one of source, destination and profile is
\* unusable, and the flags that matter only once files are processed vary only
\* on the usable ones.
ArgSets ==
    {a \in [dry_run : BOOLEAN, delete : BOOLEAN, yes : BOOLEAN, content_dedupe : BOOLEAN,
            workers : WorkerCounts, isatty : BOOLEAN, dest : Dests, source : Sources,
            profile : Profiles] :
        /\ ~a.isatty => (a.delete /\ ~a.yes /\ ~a.dry_run)
        /\ a.yes => a.delete
        /\ Cardinality({x \in {"dest", "source", "profile"} :
                            a[x] \notin {GoodDest, "dir", "default"}}) <= 1
        /\ ~ValidConfig(a) => (a.workers = 1 /\ ~a.content_dedupe)}

\* What every behaviour of the synchronizer starts from: no process yet.
RunInit ==
    /\ DecideIdle
    /\ CacheAuxIdle
    /\ content \in {c \in [Files -> Hashes] : c[1] = "h1"}
    /\ bucket \in {b \in [Keys -> UNION {InitialObjects(f) : f \in Files}] :
                    /\ \A f \in Files : b[FileKey(f)] \in InitialObjects(f)
                    /\ b[OldKey] \in {None, Some(Object("h1", Tags(Some("h1"), Some("5"), Some("12"))))}}
    /\ entries = EmptyDict
    /\ hash_index = EmptyDict
    /\ phase = "start"
    /\ loc = [f \in Files |-> IdleLocals]
    /\ run_hash_map = EmptyDict
    /\ summary = ZeroSummary
    /\ sweep = IdleSweep
    /\ exit_code = None
    /\ run_no = 0
    /\ hist = [calls |-> NoCalls, store0 |-> bucket, crashed |-> FALSE, interrupted |-> FALSE,
               bare |-> {}, prev |-> None]

\* One run, any command line, the environment free to inject failures.
Init ==
    /\ RunInit
    /\ disk \in InitialSnapshots
    /\ args \in ArgSets
    /\ max_runs = 1
    /\ faults = MaxFaults

\* Consecutive runs of the same command line over an unchanged tree.
InitTwice ==
    /\ RunInit
    /\ disk \in InitialSnapshots
    /\ args \in {a \in ArgSets : a.workers = Cardinality(Files) /\ a.isatty /\ ValidConfig(a)}
    /\ max_runs = MaxRuns
    /\ faults = 0

NextRun ==
    \/ StartRun
    \/ \E f \in Files : Start(f)
    \/ \E f \in Files : SkipCache(f)
    \/ \E f \in Files : SkipMap(f)
    \/ \E f \in Files : DdMap(f)
    \/ \E f \in Files : DdIndex(f)
    \/ \E f \in Files : DdVerify(f)
    \/ \E f \in Files : DdCache(f)
    \/ \E f \in Files : DdScrub(f)
    \/ \E f \in Files : Upload(f)
    \/ \E f \in Files : UpCache(f)
    \/ \E f \in Files : UpMap(f)
    \/ JoinWorkers
    \/ SweepList
    \/ SweepItem
    \/ SaveCache

Next == NextRun \/ Interrupt

\* The snapshot files _load is not written for: unreadable, undecodable,
\* unparsable, of another shape at the top or in a member, or short of a member.
MalformedSnapshots ==
    {Some(r) : r \in RawFiles}
        \cup {Some([version |-> 1, entries |-> JsonList, hash_index |-> JsonObject(idx)]) :
                  idx \in InitialIndexes}
        \cup {Some([version |-> 1, entries |-> JsonDict({}), hash_index |-> JsonList]),
              Some([version |-> 1])}

\* One run of a usable command line that finds a malformed snapshot file.
InitMalformed ==
    /\ RunInit
    /\ disk \in MalformedSnapshots
    /\ args \in {a \in ArgSets : a.workers = 1 /\ ValidConfig(a)}
    /\ max_runs = 1
    /\ faults = 0

SpecMalformed == InitMalformed /\ [][NextRun]_vars

Spec == Init /\ [][Next]_vars

SpecTwice == InitTwice /\ [][NextRun]_vars

\* One run of a usable command line with two threads at a terminal, the second
\* file not in the store yet, the environment free to inject failures.
InitLive ==
    /\ RunInit
    /\ bucket[FileKey(2)] = None
    /\ bucket[FileKey(1)] \in {None, Some(Object("h1", Tags(Some("h1"), Some(Str(FileSize(1))),
                                                          Some(Str(FileMtime(1))))))}
    /\ disk \in {None} \cup {Some(Serialize(EmptyDict, idx)) : idx \in InitialIndexes \ {EmptyDict}}
    /\ args \in {a \in ArgSets : ValidConfig(a) /\ a.workers = 2 /\ a.isatty}
    /\ max_runs = 1
    /\ faults = MaxFaults

\* The process keeps running: the executor's threads, the sweep and the save
\* take their steps as long as they have one to take.
SpecLive == InitLive /\ [][Next]_vars /\ WF_vars(NextRun)

\* The hash index an earlier run left after it uploaded the second file when
\* its content was h1.
StaleIndexes == {[h \in {"h1"} |-> UriForKey(FileKey(2))]}

\* One run of a usable command line over a cache whose hash index names the
\* second file's key for h1; since that upload the file and the object at the
\* key may have changed, and the object may be gone.
InitStale ==
    /\ RunInit
    /\ disk \in {Some(Serialize(ents, idx)) : ents \in InitialEntries, idx \in StaleIndexes}
    /\ args \in {a \in ArgSets : ValidConfig(a) /\ a.isatty}
    /\ max_runs = 1
    /\ faults = 0

SpecStale == InitStale /\ [][NextRun]_vars

----------------------------------------------------------------------------
(* SpecDecide: choose_upload_action on every combination of arguments. *)

\* No synchronizer process exists.
RunIdle ==
    /\ args = [dry_run |-> FALSE, delete |-> FALSE, yes |-> FALSE, content_dedupe |-> FALSE,
               workers |-> 1, isatty |-> TRUE, dest |-> GoodDest, source |-> "dir",
               profile |-> "default"]
    /\ content = [f \in Files |-> "h1"]
    /\ bucket = [k \in Keys |-> None]
    /\ phase = "off"
    /\ loc = [f \in Files |-> IdleLocals]
    /\ run_hash_map = EmptyDict
    /\ summary = ZeroSummary
    /\ sweep = IdleSweep
    /\ exit_code = None
    /\ run_no = 0
    /\ max_runs = 0
    /\ faults = 0
    /\ hist = [calls |-> NoCalls, store0 |-> bucket, crashed |-> FALSE, interrupted |-> FALSE,
               bare |-> {}, prev |-> None]

ShaTags == {None, Some(""), Some("h1"), Some("h2")}

SizeTags == {None, Some("5"), Some("10"), Some("05")}

MtimeTags == {None, Some("7"), Some("12")}

DecideInputs ==
    [remote_exists : BOOLEAN,
     remote_metadata : {None} \cup {Some(Tags(s, z, m)) : s \in ShaTags, z \in SizeTags, m \in MtimeTags},
     size : {5, 10},
     mtime : {7, 12},
     local_sha : {None, Some("h1"), Some("h2")}]

InitDecide ==
    /\ d_in \in {Some(i) : i \in DecideInputs}
    /\ d_out = None
    /\ s_in = None
    /\ s_out = None
    /\ k_in = None
    /\ k_out = None
    /\ entries = EmptyDict
    /\ hash_index = EmptyDict
    /\ disk = None
    /\ CacheAuxIdle
    /\ RunIdle

DecideCall ==
    /\ IsSome(d_in)
    /\ d_out = None
    /\ LET i == Get(d_in)
       IN  d_out' = Some(ChooseUploadAction(i.remote_exists, i.remote_metadata, i.size, i.mtime,
                                            i.local_sha))
    /\ UNCHANGED <<d_in, s_in, s_out, k_in, k_out, cacheVars, cacheAuxVars, runVars>>

NextDecide == DecideCall

SpecDecide == InitDecide /\ [][NextDecide]_vars

----------------------------------------------------------------------------
(* SpecCache: ShaCache operations in any order, save() and a reload. *)

CachePaths == {"a", "b", "link_a"}

CacheSizes == {5, 10}

CacheMtimes == {7, 12}

\* The (size, mtime) pairs set_sha is called with; queries range over every
\* combination of CacheSizes and CacheMtimes.
CacheStats == {<<5, 7>>, <<10, 12>>}

InitCache ==
    /\ DecideIdle
    /\ RunIdle
    /\ entries = EmptyDict
    /\ hash_index = EmptyDict
    /\ disk = None
    /\ cache2 = None
    /\ fresh = "dirty"
    /\ lastSet = EmptyDict
    /\ c_ops = 0
    /\ saving = NotSaving

\* cache.set_sha(path, size, mtime, sha256, s3_uri)
CacheSetSha ==
    /\ saving.pc = "idle"
    /\ c_ops < MaxCacheOps
    /\ \E path \in CachePaths, stat \in CacheStats, sha256 \in Hashes,
          s3_uri \in {None, Some(""), Some("s3://bucket/photos/a.jpg")} :
        /\ entries' = SetShaEntries(entries, path, stat[1], stat[2], sha256, s3_uri)
        /\ hash_index' = SetShaIndex(hash_index, sha256, s3_uri)
        /\ lastSet' = DictSet(lastSet, Resolve(path),
                              [size |-> stat[1], mtime |-> stat[2], sha256 |-> sha256])
    /\ c_ops' = c_ops + 1
    /\ fresh' = "dirty"
    /\ UNCHANGED <<disk, cache2, saving, decideVars, runVars>>

\* cache.set_canonical_uri(sha256, s3_uri)
CacheSetCanonical ==
    /\ saving.pc = "idle"
    /\ c_ops < MaxCacheOps
    /\ \E sha256 \in Hashes, s3_uri \in {None, Some("s3://bucket/photos/old.jpg")} :
        hash_index' = SetCanonicalUri(hash_index, sha256, s3_uri)
    /\ c_ops' = c_ops + 1
    /\ fresh' = "dirty"
    /\ UNCHANGED <<entries, lastSet, disk, cache2, saving, decideVars, runVars>>

\* What a file holds when the write into it stopped part-way.
Truncated == [raw |-> "truncated"]

\* Mutant: json.dump writes into the file at the cache path itself.
SaveWriteInPlace(file, tmpfile, data, complete) ==
    [path |-> Some(IF complete THEN data ELSE Truncated), tmp |-> tmpfile]

\* save(): json.dump(data, handle) into the temp file; the write runs to its
\* end or stops part-way.  The files at the cache path and at the temp name.
SaveWrite(file, tmpfile, data, complete) ==
    [path |-> file, tmp |-> Some(IF complete THEN data ELSE Truncated)]

\* save(): mkdir and tempfile.mkstemp beside the cache path; the temp file is
\* empty.  When either raises, nothing has been created.
CacheSaveOpen ==
    /\ saving.pc = "idle"
    /\ \/ saving' = [pc |-> "opened", tmp |-> Some(Truncated), prev |-> disk, failed |-> FALSE]
       \/ saving' = SaveFailed(saving, disk)
    /\ UNCHANGED <<cacheVars, cache2, fresh, lastSet, c_ops, decideVars, runVars>>

\* save(): json.dump.  A write that stops part-way raises (or the process is
\* gone); the `finally` clause removes the temp file.
CacheSaveWrite ==
    /\ saving.pc = "opened"
    /\ \E complete \in BOOLEAN :
          LET w == SaveWrite(disk, saving.tmp, Serialize(entries, hash_index), complete)
          IN  /\ disk' = w.path
              /\ saving' = IF complete THEN [saving EXCEPT !.pc = "written", !.tmp = w.tmp]
                            ELSE SaveFailed(saving, saving.prev)
    /\ UNCHANGED <<entries, hash_index, cache2, fresh, lastSet, c_ops, decideVars, runVars>>

\* save(): os.replace(tmp_name, self.path), one atomic rename, and the return;
\* or os.replace raises, and the `finally` clause removes the temp file.
CacheSave ==
    /\ saving.pc = "written"
    /\ \/ /\ disk' = saving.tmp
          /\ fresh' = "saved"
          /\ saving' = NotSaving
       \/ /\ UNCHANGED <<disk, fresh>>
          /\ saving' = SaveFailed(saving, saving.prev)
    /\ UNCHANGED <<entries, hash_index, lastSet, c_ops, cache2, decideVars, runVars>>

\* ShaCache(path): a new cache constructed from the snapshot file
CacheConstruct ==
    /\ saving.pc = "idle"
    /\ LoadRaises(disk) = ""
    /\ cache2' = Some([entries |-> LoadEntries(disk), hash_index |-> LoadHashIndex(disk)])
    /\ fresh' = IF fresh = "dirty" THEN "dirty" ELSE "loaded"
    /\ UNCHANGED <<entries, hash_index, lastSet, c_ops, disk, saving, decideVars, runVars>>

NextCache ==
    CacheSetSha \/ CacheSetCanonical \/ CacheSaveOpen \/ CacheSaveWrite \/ CacheSave
        \/ CacheConstruct

SpecCache == InitCache /\ [][NextCache]_vars

----------------------------------------------------------------------------
(* SpecScan: should_include on relative paths, include lists and exclude   *)
(* lists.                                                                  *)

DEFAULT_EXCLUDES == {".DS_Store", "Thumbs.db"}

Rest(str) == SubSeq(str, 2, Len(str))

\* Path(rel_posix).name: what follows the last "/".
RECURSIVE BaseName(_)
BaseName(rel_posix) ==
    IF \E i \in 1..Len(rel_posix) : SubSeq(rel_posix, i, i) = "/"
    THEN BaseName(Rest(rel_posix))
    ELSE rel_posix

\* fnmatch.fnmatch on a POSIX system: "*" matches any run of characters, "/"
\* included, "?" matches one character, any other character matches itself,
\* and the pattern must match the whole name.
RECURSIVE FnMatch(_, _)
FnMatch(name, pattern) ==
    IF pattern = "" THEN name = ""
    ELSE LET c == SubSeq(pattern, 1, 1)
         IN  IF c = "*"
             THEN FnMatch(name, Rest(pattern)) \/ (name # "" /\ FnMatch(Rest(name), pattern))
             ELSE /\ name # ""
                  /\ c = "?" \/ c = SubSeq(name, 1, 1)
                  /\ FnMatch(Rest(name), Rest(pattern))

\* any(fnmatch(rel_posix, pattern) or fnmatch(name, pattern) for pattern in patterns)
AnyMatch(rel_posix, patterns) ==
    \E pattern \in patterns : FnMatch(rel_posix, pattern) \/ FnMatch(BaseName(rel_posix), pattern)

\* should_include; the lists are sets here, for `any` does not depend on order.
ShouldInclude(rel_posix, include, exclude, skip_junk) ==
    IF skip_junk /\ BaseName(rel_posix) \in DEFAULT_EXCLUDES
    THEN include # {} /\ AnyMatch(rel_posix, include)
    ELSE IF include # {} /\ ~AnyMatch(rel_posix, include) THEN FALSE
    ELSE IF exclude # {} /\ AnyMatch(rel_posix, exclude) THEN FALSE
    ELSE TRUE

ScanPaths == {"a.jpg", "b/c.jpg", "b/notes.txt", ".DS_Store", "b/.DS_Store", "Thumbs.db"}

ScanPatterns == {"*.jpg", "b/*", ".DS_Store", "?humbs.db"}

ScanInputs ==
    [rel_posix : ScanPaths, include : SUBSET ScanPatterns, exclude : SUBSET ScanPatterns,
     skip_junk : BOOLEAN]

InitScan ==
    /\ s_in \in {Some(i) : i \in ScanInputs}
    /\ s_out = None
    /\ d_in = None
    /\ d_out = None
    /\ k_in = None
    /\ k_out = None
    /\ entries = EmptyDict
    /\ hash_index = EmptyDict
    /\ disk = None
    /\ CacheAuxIdle
    /\ RunIdle

\* iter_local_files: should_include(rel, include=include, exclude=exclude, skip_junk=skip_junk)
ScanCall ==
    /\ IsSome(s_in)
    /\ s_out = None
    /\ LET i == Get(s_in)
       IN  s_out' = Some(ShouldInclude(i.rel_posix, i.include, i.exclude, i.skip_junk))
    /\ UNCHANGED <<s_in, d_in, d_out, k_in, k_out, cacheVars, cacheAuxVars, runVars>>

NextScan == ScanCall

SpecScan == InitScan /\ [][NextScan]_vars

----------------------------------------------------------------------------
(* SpecKey: parse_s3_uri and S3Destination.key_for on their own. *)

\* --dest values: no prefix, a bare slash, a prefix with and without its
\* trailing slash, a doubled slash, a nested prefix, and two that are refused.
KeyDests ==
    {"s3://bucket", "s3://bucket/", "s3://bucket/photos", "s3://bucket/photos/",
     "s3://bucket//photos", "s3://bucket/photos/2025", "http://bucket/photos", "s3:///photos"}

\* Relative POSIX paths as to_rel_posix returns them.
KeyRels == {"a.jpg", "b/c.jpg", "c.jpg", "photos/a.jpg", "2025/trip/img.jpg"}

KeyInputs == [value : KeyDests, rel1 : KeyRels, rel2 : KeyRels]

InitKey ==
    /\ k_in \in {Some(i) : i \in KeyInputs}
    /\ k_out = None
    /\ d_in = None
    /\ d_out = None
    /\ s_in = None
    /\ s_out = None
    /\ entries = EmptyDict
    /\ hash_index = EmptyDict
    /\ disk = None
    /\ CacheAuxIdle
    /\ RunIdle

\* destination = parse_s3_uri(dest_input), then destination.key_for(rel) for
\* two scanned files; no key when parse_s3_uri raised.
KeyCall ==
    /\ IsSome(k_in)
    /\ k_out = None
    /\ LET i == Get(k_in)
           destination == ParseS3Uri(i.value)
       IN  k_out' = Some([dest |-> destination,
                          key1 |-> IF destination.raised THEN None
                                   ELSE Some(KeyFor(destination, i.rel1)),
                          key2 |-> IF destination.raised THEN None
                                   ELSE Some(KeyFor(destination, i.rel2))])
    /\ UNCHANGED <<k_in, d_in, d_out, s_in, s_out, cacheVars, cacheAuxVars, runVars>>

NextKey == KeyCall

SpecKey == InitKey /\ [][NextKey]_vars

----------------------------------------------------------------------------
(* The claims. *)

WorkersSettled == \A f \in Files : loc[f].pc = "done"

RunExited == phase = "exited"

\* The object at the file's key when the run started carries the file's hash.
RemoteHashMatches(f) ==
    /\ Holds(hist.store0, FileKey(f))
    /\ Get(hist.store0[FileKey(f)]).meta.sha256 = Some(content[f])

\* C1: the deletion sweep never issues a delete for a key of the run's local key
\* set, whatever the listing, the pages and the gates are, the keys of files
\* whose upload failed included: no delete call names a local key, and every
\* object that was at a local key when the run started is still in the store.
C1_SweepSparesLocalKeys ==
    /\ hist.calls.deletes \cap LocalKeys = {}
    /\ \A k \in LocalKeys : Holds(hist.store0, k) => Holds(bucket, k)

\* C1 witness: the sweep has issued a delete while a file of this run ended in
\* an error and the object at that file's key was listed and left in place.
C1_Witness ==
    /\ RunExited
    /\ ~hist.crashed
    /\ hist.calls.deletes # {}
    /\ \E f \in Files : /\ loc[f].outcome = "error"
                        /\ FileKey(f) \in hist.calls.puts
                        /\ Holds(bucket, FileKey(f))

\* C2, as claimed: after a non-dry-run run that finished without errors, a second
\* run over the unchanged tree uploads nothing and writes a snapshot equal to the
\* first run's.
C2_SecondRunIdempotent ==
    (/\ RunExited
     /\ run_no = 2
     /\ ~hist.crashed
     /\ ~args.dry_run
     /\ IsSome(hist.prev)
     /\ Get(hist.prev).exit_code = Some(0))
        => /\ summary.uploaded = 0
           /\ disk = Get(hist.prev).disk

\* Two files with the same bytes, no object at either key, no object anywhere
\* with that content, nothing failed.
TwoFreshTwins ==
    /\ content[1] = content[2]
    /\ \A k \in Keys : ~Holds(hist.store0, k)
    /\ summary.errors = 0

\* C3, as claimed: two files with identical content, neither present remotely,
\* end a non-dry-run run with one upload and one duplicate when dedup is enabled
\* (two uploads and no duplicate when it is disabled), in every interleaving.
C3_OneUploadOneDuplicate ==
    (WorkersSettled /\ phase # "start" /\ ~args.dry_run /\ TwoFreshTwins)
        => IF args.content_dedupe
           THEN summary.uploaded = 1 /\ summary.duplicates = 1
           ELSE summary.uploaded = 2 /\ summary.duplicates = 0

\* C4: a file whose remote object carries a content hash equal to the file's
\* hash is never uploaded in the run: no put names its key, its verdict is skip
\* with the hash-match reason, and it ends skipped unless its probe or its
\* hashing failed.
C4_HashMatchNeverUploads ==
    \A f \in Files :
        RemoteHashMatches(f) =>
            /\ FileKey(f) \notin hist.calls.puts
            /\ bucket[FileKey(f)] = hist.store0[FileKey(f)] \/ phase \in {"sweep", "save", "exited"}
            /\ loc[f].pc \in {"queued", "skip_cache", "skip_map", "done"}
            /\ loc[f].pc \in {"skip_cache", "skip_map"} => loc[f].reason = "remote sha256 match"
            /\ loc[f].pc = "done" =>
                  \/ loc[f].outcome = "skipped" /\ loc[f].reason = "remote sha256 match"
                  \/ loc[f].outcome = "error" /\ loc[f].reason = ""

\* C4 witness: a file whose remote hash matches has been processed and skipped.
C4_Witness ==
    \E f \in Files : RemoteHashMatches(f) /\ loc[f].pc = "done" /\ loc[f].outcome = "skipped"

\* C5: when the remote object does not exist the verdict is upload with reason
\* "remote missing", for every metadata argument and every local hash argument.
C5_MissingAlwaysUploads ==
    (IsSome(d_out) /\ ~Get(d_in).remote_exists) => Get(d_out) = Verdict(TRUE, "remote missing")

\* C5 witness: the engine was called for a missing object with metadata that
\* carries a hash and matching size and mtime, and without a local hash.
C5_Witness ==
    /\ IsSome(d_out)
    /\ ~Get(d_in).remote_exists
    /\ Get(d_in).local_sha = None
    /\ Get(d_in).remote_metadata = Some(Tags(Some("h1"), Some(Str(Get(d_in).size)), Some(Str(Get(d_in).mtime))))

\* C6: the prober reports "missing" only when the store said so; a file whose
\* probe of its key or of its dedup candidate failed otherwise is finished as an
\* error, is counted as one, and is neither uploaded, skipped nor a duplicate.
C6_ProbeFailureIsAnError ==
    /\ \A f \in Files :
          /\ (loc[f].pc # "queued" /\ loc[f].heard # "failed")
                => (loc[f].exists <=> loc[f].heard = "found")
          /\ (loc[f].heard = "failed" \/ loc[f].verified = "failed") =>
                /\ loc[f].pc = "done"
                /\ loc[f].outcome = "error"
                /\ FileKey(f) \notin hist.calls.puts
                /\ bucket[FileKey(f)] = hist.store0[FileKey(f)] \/ phase \in {"sweep", "save", "exited"}
    /\ phase = "workers" =>
          /\ summary.errors = Cardinality({f \in Files : loc[f].outcome = "error"})
          /\ summary.uploaded = Cardinality({f \in Files : loc[f].outcome = "uploaded"})
          /\ summary.skipped = Cardinality({f \in Files : loc[f].outcome = "skipped"})
          /\ summary.duplicates = Cardinality({f \in Files : loc[f].outcome = "duplicate"})

\* C6 witness: the probe of a dedup candidate failed for a file whose own key
\* was reported missing, and the file was counted as an error.
C6_Witness ==
    \E f \in Files :
        /\ loc[f].heard = "missing"
        /\ loc[f].verified = "failed"
        /\ loc[f].outcome = "error"
        /\ summary.errors = 1

\* C7: when the remote object exists and carries a content hash, the verdict is
\* decided by hash equality alone (equal: skip, "remote sha256 match"; unequal:
\* upload, "remote sha256 mismatch"), whatever the size and mtime tags are; with
\* no local hash the call raises, again whatever the tags are.
C7_HashOutranksStat ==
    (/\ IsSome(d_out)
     /\ Get(d_in).remote_exists
     /\ HasRemoteSha(Get(d_in).remote_metadata))
        => LET i == Get(d_in)
               remote_sha == Get(Get(i.remote_metadata).sha256)
           IN  Get(d_out) =
                   IF i.local_sha = None
                   THEN Raised("local_sha required when remote sha256 is present")
                   ELSE IF i.local_sha = Some(remote_sha)
                        THEN Verdict(FALSE, "remote sha256 match")
                        ELSE Verdict(TRUE, "remote sha256 mismatch")

\* C7 witness: the hashes differ while the size and mtime tags both equal the
\* local file's.
C7_Witness ==
    /\ IsSome(d_out)
    /\ Get(d_in).remote_exists
    /\ Get(d_in).local_sha = Some("h2")
    /\ Get(d_in).remote_metadata = Some(Tags(Some("h1"), Some(Str(Get(d_in).size)), Some(Str(Get(d_in).mtime))))
    /\ Get(d_out).needs_upload

\* The strings a size or mtime tag must equal, digit for digit.
Decimal(n) == CASE n = 5 -> "5" [] n = 7 -> "7" [] n = 10 -> "10" [] n = 12 -> "12"

\* C8: when the remote object exists and carries no content hash, the verdict is
\* skip ("remote size+mtime match") exactly when the size tag and the mtime tag
\* are both present and equal the string forms of the local size and mtime;
\* otherwise (no metadata, no tags, one tag only, a tag that differs) it is
\* upload ("remote metadata mismatch").
C8_StatFallback ==
    (/\ IsSome(d_out)
     /\ Get(d_in).remote_exists
     /\ ~HasRemoteSha(Get(d_in).remote_metadata))
        => LET i == Get(d_in)
               both == /\ IsSome(i.remote_metadata)
                       /\ Get(i.remote_metadata).size = Some(Decimal(i.size))
                       /\ Get(i.remote_metadata).mtime = Some(Decimal(i.mtime))
           IN  Get(d_out) = IF both THEN Verdict(FALSE, "remote size+mtime match")
                            ELSE Verdict(TRUE, "remote metadata mismatch")

\* C8 witness: only one of the two tags is present, it matches, and the verdict
\* is upload.
C8_Witness ==
    /\ IsSome(d_out)
    /\ Get(d_in).remote_exists
    /\ Get(d_in).size = 10
    /\ Get(d_in).remote_metadata = Some(Tags(None, Some("10"), None))
    /\ Get(d_out) = Verdict(TRUE, "remote metadata mismatch")

\* C9: after set_sha(path, size, mtime, h), and after any later operations on
\* other paths, get_sha(path, size, mtime) returns h, and get_sha for the same
\* path with another size or another mtime returns absent.
C9_SetThenGet ==
    \A path \in CachePaths :
        Resolve(path) \in DOMAIN lastSet =>
            LET last == lastSet[Resolve(path)]
            IN  \A size \in CacheSizes, mtime \in CacheMtimes :
                    GetSha(entries, path, size, mtime) =
                        IF size = last.size /\ mtime = last.mtime THEN Some(last.sha256) ELSE None

\* C9 witness: both files have been set, so one of them was set before an
\* operation on the other path, and the index was written too.
C9_Witness ==
    /\ DOMAIN lastSet = {"a", "b"}
    /\ lastSet["a"].size # lastSet["b"].size
    /\ DOMAIN hash_index # {}
    /\ c_ops = MaxCacheOps

\* C10: a cache constructed from the snapshot that save() wrote answers every
\* get_sha and get_canonical_uri query as the saved cache does.
C10_RoundTrip ==
    fresh = "loaded" =>
        /\ \A path \in CachePaths, size \in CacheSizes, mtime \in CacheMtimes :
              GetSha(Get(cache2).entries, path, size, mtime) = GetSha(entries, path, size, mtime)
        /\ \A sha256 \in Hashes :
              GetCanonicalUri(Get(cache2).hash_index, sha256) = GetCanonicalUri(hash_index, sha256)

\* C10 witness: the reloaded cache holds an entry with a uri, an entry without
\* one and a hash-index mapping.
C10_Witness ==
    /\ fresh = "loaded"
    /\ DOMAIN entries = {"a", "b"}
    /\ IsSome(entries["a"].s3_uri)
    /\ ~IsSome(entries["b"].s3_uri)
    /\ DOMAIN hash_index # {}

\* C20, as claimed: a file is included exactly when (a) its name is not a default
\* junk name or an include pattern matches it, (b) the include list is empty or
\* an include pattern matches the relative path or the bare name, and (c) no
\* exclude pattern matches the relative path or the bare name.
C20_IncludedIffThreeRules ==
    (IsSome(s_out) /\ Get(s_in).skip_junk) =>
        LET i == Get(s_in)
        IN  Get(s_out) <=>
                /\ BaseName(i.rel_posix) \notin DEFAULT_EXCLUDES \/ AnyMatch(i.rel_posix, i.include)
                /\ i.include = {} \/ AnyMatch(i.rel_posix, i.include)
                /\ ~AnyMatch(i.rel_posix, i.exclude)

\* C11, as claimed: whatever state the snapshot file is in, constructing the
\* cache raises nothing and the run goes on to scan the tree as it does with an
\* empty cache (unless the command line itself is refused).
C11_LoadNeverFailsRun ==
    (run_no = 1 /\ ValidConfig(args) /\ ~Refused(args)) =>
        /\ ~(phase = "exited" /\ summary.scanned = 0)
        /\ summary.scanned = Cardinality(Files)

\* C12: while save() runs, and after it failed at any step, the file at the
\* cache path is the complete snapshot that was there when save() was entered;
\* the file changes only in the rename, to the complete new snapshot; at every
\* moment it is missing (never saved yet) or a complete snapshot, never a
\* partial write.
C12_SaveIsAtomic ==
    /\ []((saving.pc # "idle" \/ saving.failed) => disk = saving.prev)
    /\ [](IsSome(disk) =>
            /\ IsDocument(disk)
            /\ IsDict(Get(disk).entries)
            /\ IsDict(Get(disk).hash_index))
    /\ [][disk' # disk =>
            /\ saving.pc = "written"
            /\ disk' = Some(Serialize(entries, hash_index))]_vars

\* C12 witness: a save failed after an earlier one had written a snapshot, and
\* the cache holds other data than that snapshot.
C12_Witness ==
    /\ saving.failed
    /\ IsSome(disk)
    /\ disk # Some(Serialize(entries, hash_index))

\* The run_sync call returned: no traceback, no interrupt, no refusal.
RunReturned ==
    /\ RunExited
    /\ ~hist.crashed
    /\ exit_code \in {Some(0), Some(1)}

\* C13: a file whose probe, hashing or upload failed is counted as one error,
\* and the run goes on: every other file reaches its own verdict and the run
\* ends; unless something else stops it (a failure of the listing or of the
\* save, an interrupt), it ends having swept when asked to, saved the cache and
\* reported the counts.
C13_FailureIsIsolated ==
    /\ [](Working =>
            summary.errors = Cardinality({f \in Files : loc[f].outcome = "error"}))
    /\ (\E f \in Files : loc[f].outcome = "error") ~> (RunExited /\ WorkersSettled)
    /\ []((RunReturned /\ \E f \in Files : loc[f].outcome = "error") =>
            /\ \A f \in Files : loc[f].outcome \in {"uploaded", "skipped", "duplicate", "error"}
            /\ summary.errors >= Cardinality({f \in Files : loc[f].outcome = "error"})
            /\ args.delete => sweep.listed /\ ~sweep.truncated /\ sweep.page = <<>>
            /\ disk = Some(Serialize(entries, hash_index))
            /\ exit_code = Some(1))

\* C13 witness: the first file failed, the second was uploaded after that, the
\* sweep deleted an object and the run returned.
C13_Witness ==
    /\ RunReturned
    /\ loc[1].outcome = "error"
    /\ loc[2].outcome = "uploaded"
    /\ summary.deleted = 1
    /\ hist.calls.deletes # {}

\* C14: the sweep starts only when every scanned file has settled: while a
\* worker is still probing, hashing or uploading, run_sync is not in the sweep
\* and no listing and no delete of the sweep has happened.
C14_SweepAfterWorkersSettle ==
    (phase = "sweep" \/ sweep.listed \/ hist.calls.deletes # {} \/ hist.calls.prompts # {})
        => /\ WorkersSettled
           /\ \A f \in Files : loc[f].outcome \in {"uploaded", "skipped", "duplicate", "error"}

\* C14 witness: both workers were running at once, one file was uploaded, and
\* the sweep then listed the prefix and deleted an object.
C14_Witness ==
    /\ args.workers = 2
    /\ sweep.listed
    /\ hist.calls.deletes # {}
    /\ Cardinality(hist.calls.puts) = 2

\* The sweep has run to its end: nothing stopped it.
SweepDone ==
    /\ args.delete
    /\ phase \in {"save", "exited"}
    /\ sweep.listed
    /\ ~sweep.truncated
    /\ sweep.page = <<>>

\* The objects the sweep removed from the store.
Removed == {k \in Keys : Holds(hist.store0, k) /\ ~Holds(bucket, k)}

\* C15: in dry-run mode the sweep issues no delete and asks nothing, whatever
\* --yes is, and the store keeps every object; otherwise, with --yes, it asks
\* nothing and issues a delete for every listed object that is not local;
\* otherwise it asks about each such object and issues a delete only for those
\* the operator said yes to, a declined object staying in the store and out of
\* the deleted count.
C15_GatePrecedence ==
    /\ args.dry_run =>
          /\ hist.calls.deletes = {}
          /\ hist.calls.prompts = {}
          /\ Removed = {}
    /\ (~args.dry_run /\ args.yes) =>
          /\ hist.calls.prompts = {}
          /\ SweepDone => hist.calls.deletes = {k \in Keys \ LocalKeys : Holds(hist.store0, k)}
    /\ (~args.dry_run /\ ~args.yes) =>
          /\ hist.calls.deletes \subseteq hist.calls.affirmed
          /\ hist.calls.affirmed \subseteq hist.calls.prompts
          /\ SweepDone => hist.calls.prompts = {k \in Keys \ LocalKeys : Holds(hist.store0, k)}
    /\ ~args.dry_run =>
          /\ Removed \subseteq hist.calls.deletes
          /\ sweep.deleted = Cardinality(Removed)
          /\ (SweepDone /\ sweep.errors = 0 /\ ~hist.crashed) => Removed = hist.calls.deletes

\* C15 witness: the operator was asked about an object and declined; the object
\* is still in the store and the sweep counted no deletion.
C15_Witness ==
    /\ SweepDone
    /\ hist.calls.prompts = {OldKey}
    /\ hist.calls.affirmed = {}
    /\ Holds(bucket, OldKey)
    /\ sweep.deleted = 0

\* The command line asks for a delete that nothing can confirm.
UnconfirmedDelete == args.delete /\ ~args.yes /\ ~args.dry_run /\ ~args.isatty

\* The command line names a destination that is no s3 URI with a bucket, a
\* source that is no directory, or a profile that does not exist.
ConfigError == args.dest # GoodDest \/ args.source # "dir" \/ args.profile # "default"

\* The process ended before any work: nothing scanned, no worker started, no
\* request sent to the store, nothing listed.
NothingDone ==
    /\ phase = "exited"
    /\ summary = ZeroSummary
    /\ \A f \in Files : loc[f] = IdleLocals
    /\ hist.calls = NoCalls
    /\ sweep = IdleSweep
    /\ bucket = hist.store0

\* C16: a run with --delete, without --yes, without --dry-run and without an
\* interactive terminal is refused: it ends with exit code 2 before any file
\* is scanned, probed or uploaded and before anything is listed or deleted, and
\* the snapshot file is never written.
C16_UnconfirmedDeleteRefused ==
    /\ []((run_no >= 1 /\ UnconfirmedDelete /\ ~ConfigError) =>
            NothingDone /\ exit_code = Some(2))
    /\ [][(UnconfirmedDelete /\ ~ConfigError) => disk' = disk]_vars

\* C16 witness: the refused run has ended, with files to upload, an object to
\* delete and a snapshot file in place.
C16_Witness ==
    /\ run_no = 1
    /\ UnconfirmedDelete
    /\ ~ConfigError
    /\ exit_code = Some(2)
    /\ Holds(bucket, OldKey)
    /\ ~Holds(bucket, FileKey(1))
    /\ IsSome(disk)

\* C17: when the run is interrupted after the workers have started, the cache
\* is still saved before the process exits: every entry of the in-memory cache
\* is in the snapshot file the next run reads.
C17_InterruptStillSaves ==
    (phase = "exited" /\ exit_code = Some(130)) =>
        \A p \in DOMAIN entries :
            /\ p \in DOMAIN LoadEntries(disk)
            /\ LoadEntries(disk)[p] = entries[p]

\* C18: the process exits 0 exactly when run_sync ran to its end and counted
\* no error; it exits 1 when run_sync ran to its end and counted an error, 2
\* when the run was refused or the configuration was wrong, 130 when it was
\* interrupted; the four codes differ.
C18_ExitStatus ==
    phase = "exited" =>
        LET config == run_no >= 1 /\ (ConfigError \/ UnconfirmedDelete)
            returned == run_no >= 1 /\ ~config /\ ~hist.interrupted /\ ~hist.crashed
        IN  /\ exit_code = Some(0) <=> (returned /\ summary.errors = 0)
            /\ (returned /\ summary.errors > 0) => exit_code = Some(1)
            /\ config => exit_code = Some(2)
            /\ hist.interrupted => exit_code = Some(130)
            /\ run_no >= 1 => exit_code \in {Some(0), Some(1), Some(2), Some(130)}
            /\ exit_code = Some(1) => (hist.crashed \/ (returned /\ summary.errors > 0))
            /\ exit_code = Some(2) => config
            /\ exit_code = Some(130) => hist.interrupted

\* C18 witness: a run whose only failure was a failed delete in the sweep has
\* ended with exit code 1.
C18_Witness ==
    /\ phase = "exited"
    /\ ~hist.crashed
    /\ ~hist.interrupted
    /\ \A f \in Files : loc[f].outcome # "error"
    /\ sweep.errors = 1
    /\ summary.errors = 1
    /\ exit_code = Some(1)

\* C19: an invalid destination, a source that is missing or no directory, or a
\* missing profile ends the run with exit code 2 before any work starts: no
\* file is scanned, no head, list, put or delete is issued, and the snapshot
\* file is never written.
C19_ConfigErrorBeforeWork ==
    /\ []((run_no >= 1 /\ ConfigError) => NothingDone /\ exit_code = Some(2))
    /\ [][ConfigError => disk' = disk]_vars

\* C19 witness: a run with a destination that is no s3 URI has ended, although
\* it was asked to delete without asking and there was work to do.
C19_Witness ==
    /\ run_no = 1
    /\ args.dest \in Dests \ {GoodDest}
    /\ args.delete /\ args.yes
    /\ exit_code = Some(2)
    /\ Holds(bucket, OldKey)
    /\ ~Holds(bucket, FileKey(1))

\* The object an upload of the file leaves at a key: the file's bytes, tagged
\* with the file's hash and with its size and mtime as decimal strings.
UploadedObject(f) ==
    Some(Object(content[f],
                Tags(Some(content[f]), Some(Str(FileSize(f))), Some(Str(FileMtime(f))))))

\* The workers of a first run over an empty bucket have all returned, without
\* --dry-run and without an error.
SyncedFromEmpty ==
    /\ run_no = 1
    /\ phase \in {"workers", "interrupted", "sweep", "save", "exited"}
    /\ WorkersSettled
    /\ \A k \in Keys : ~Holds(hist.store0, k)
    /\ ~args.dry_run
    /\ summary.errors = 0

\* Every file was uploaded, is in the store under prefix + relative path with
\* its three tags, is in the cache with its hash, and a probe of its key now
\* returns a hash that matches.
AllUploaded ==
    /\ summary.uploaded = Cardinality(Files)
    /\ \A f \in Files :
          /\ bucket[FileKey(f)] = UploadedObject(f)
          /\ FileKey(f) = "photos/" \o RelPosix(f)
          /\ PathOf(f) \in DOMAIN entries
          /\ entries[PathOf(f)].sha256 = content[f]
          /\ LET r == HeadObjectMetadata(S3Head(bucket, FileKey(f), "none"))
             IN  /\ r.exists
                 /\ ChooseUploadAction(r.exists, r.metadata, FileSize(f), FileMtime(f),
                                       Some(content[f])).reason = "remote sha256 match"
    /\ Cardinality(DOMAIN entries) = Cardinality(Files)
    /\ Cardinality({k \in Keys : Holds(bucket, k)}) = Cardinality(Files)

\* Every change of the store that leaves an object at a key is an upload of the
\* file of that key, with the three tags.
PutsAreTagged ==
    \A k \in Keys :
        (bucket'[k] # bucket[k] /\ IsSome(bucket'[k])) =>
            \E f \in Files : k = FileKey(f) /\ bucket'[k] = UploadedObject(f)

\* C21, as claimed: every upload writes the object at the file's key with the
\* three tags, so that a sync of n files from an empty cache and an empty
\* bucket yields n uploads, n tagged objects, n cache entries and probes that
\* match.
C21_EveryFileUploaded ==
    SyncedFromEmpty => AllUploaded

\* C21, amended: every upload writes the object at the file's key with the
\* three tags equal to the file's hash, size and mtime; a sync of n files from
\* an empty bucket yields n uploads, n tagged objects, n cache entries and
\* probes that match when dedup mode is off or no two files have the same
\* content.
C21_UploadsAreTagged ==
    /\ [][PutsAreTagged]_vars
    /\ []((SyncedFromEmpty /\ (~args.content_dedupe \/ content[1] # content[2])) => AllUploaded)

\* C21 witness: two files were synced from no snapshot file and an empty bucket;
\* both are uploaded and the run is about to save.
C21_Witness ==
    /\ SyncedFromEmpty
    /\ phase = "save"
    /\ disk = None
    /\ summary.uploaded = 2
    /\ \A f \in Files : bucket[FileKey(f)] = UploadedObject(f)

\* C22: for every accepted destination URI the parsed prefix is empty or ends
\* with a slash, the key of a relative path is the prefix followed by the
\* path (the path itself when the prefix is empty), and two different paths
\* get two different keys.
C22_KeyIsPrefixThenPath ==
    (IsSome(k_out) /\ ~Get(k_out).dest.raised) =>
        LET i == Get(k_in)
            o == Get(k_out)
            prefix == o.dest.prefix
        IN  /\ prefix = "" \/ SubSeq(prefix, Len(prefix), Len(prefix)) = "/"
            /\ o.key1 = Some(prefix \o i.rel1)
            /\ o.key2 = Some(prefix \o i.rel2)
            /\ prefix = "" => o.key1 = Some(i.rel1)
            /\ i.rel1 # i.rel2 => o.key1 # o.key2

\* C22 witness: the destination of the repository's test, whose prefix lacks
\* its slash, and two different paths; the first key is the test's.
C22_Witness ==
    /\ IsSome(k_out)
    /\ Get(k_in).value = "s3://bucket/photos/2025"
    /\ Get(k_in).rel1 = "2025/trip/img.jpg"
    /\ Get(k_in).rel2 = "a.jpg"
    /\ Get(k_out).dest.bucket = "bucket"
    /\ Get(k_out).key1 = Some("photos/2025/2025/trip/img.jpg")
    /\ Get(k_out).key2 = Some("photos/2025/a.jpg")

\* C23: a file ends as a duplicate only after its candidate, a URI in the
\* destination bucket, was probed in this run and the store answered that the
\* object exists (and it does, as long as the workers run); when the store
\* answers that it does not, the hash-index
\* entry of the hash is removed and the file goes on to the upload to its own
\* key: it is never a duplicate, a put is issued for its key, and unless that
\* put fails its object is written.
C23_DuplicateOnlyAfterLiveCheck ==
    /\ [](\A f \in Files :
            (loc[f].pc = "dd_cache" \/ loc[f].outcome = "duplicate") =>
                /\ args.content_dedupe
                /\ loc[f].verified = "found"
                /\ Truthy(loc[f].canonical)
                /\ StartsWith(Get(loc[f].canonical), "s3://bucket/")
                /\ StripBucket(Get(loc[f].canonical)) \in hist.calls.heads
                /\ Working => Holds(bucket, StripBucket(Get(loc[f].canonical))))
    /\ [](\A f \in Files :
            loc[f].verified = "missing" =>
                /\ loc[f].pc \in {"dd_scrub", "upload", "up_cache", "up_map", "done"}
                /\ loc[f].pc = "done" =>
                      /\ loc[f].outcome \in {"uploaded", "error"}
                      /\ ~args.dry_run => FileKey(f) \in hist.calls.puts
                      /\ (loc[f].outcome = "uploaded" /\ ~args.dry_run) =>
                            bucket[FileKey(f)] = UploadedObject(f))
    /\ [][\A f \in Files :
            (loc[f].pc = "dd_scrub" /\ loc'[f].pc # "dd_scrub") =>
                /\ loc[f].verified = "missing"
                /\ GetCanonicalUri(hash_index', Get(loc[f].sha)) = None
                /\ loc'[f].pc = "upload"]_vars

\* C23 witness: the snapshot's index named an object that is gone; the first
\* file probed it, was uploaded to its own key, and the second file of the
\* same content then ended as a duplicate of the first.
C23_Witness ==
    /\ loc[1].canonical = Some(UriForKey(OldKey))
    /\ loc[1].verified = "missing"
    /\ loc[1].outcome = "uploaded"
    /\ bucket[FileKey(1)] = UploadedObject(1)
    /\ loc[2].canonical = Some(UriForKey(FileKey(1)))
    /\ loc[2].verified = "found"
    /\ loc[2].outcome = "duplicate"

\* C24: the step that makes a file a duplicate adds one to the duplicates
\* counter and leaves every other counter and the store alone; no put is
\* issued for the duplicate's own key in the run, no object appears there,
\* and the file's cache entry holds its hash, its stat and the canonical
\* object's URI.
C24_DuplicateIsNotAnUpload ==
    /\ [][\A f \in Files :
            (loc[f].outcome # "duplicate" /\ loc'[f].outcome = "duplicate") =>
                /\ summary' = [summary EXCEPT !.duplicates = @ + 1]
                /\ bucket' = bucket
                /\ hist'.calls.puts = hist.calls.puts]_vars
    /\ [](\A f \in Files :
            loc[f].outcome = "duplicate" =>
                /\ FileKey(f) \notin hist.calls.puts
                /\ ~Holds(bucket, FileKey(f))
                /\ PathOf(f) \in DOMAIN entries
                /\ entries[PathOf(f)] = [sha256 |-> content[f], size |-> FileSize(f),
                                         mtime |-> FileMtime(f), s3_uri |-> loc[f].canonical]
                /\ Truthy(loc[f].canonical)
                /\ Get(loc[f].canonical) # UriForKey(FileKey(f)))

\* C24 witness: a run has ended in which the second file is a duplicate of an
\* object that was in the store before the run: nothing was uploaded, the
\* second file's key holds no object and its cache entry names the old object.
C24_Witness ==
    /\ phase = "exited"
    /\ exit_code = Some(0)
    /\ loc[2].outcome = "duplicate"
    /\ summary.duplicates = 1
    /\ summary.uploaded = 0
    /\ summary.uploaded_bytes = 0
    /\ ~Holds(bucket, FileKey(2))
    /\ entries[PathOf(2)].s3_uri = Some(UriForKey(OldKey))

\* The file is in the dedup resolver, or has been through it.
InResolver(f) ==
    \/ loc[f].pc \in {"dd_map", "dd_index", "dd_verify", "dd_cache", "dd_scrub"}
    \/ loc[f].outcome = "duplicate"
    \/ loc[f].verified # ""
    \/ loc[f].canonical # None

\* C25: the dedup resolver is entered only for a file whose key was probed and
\* holds no object, and only with --content-dedupe: without it no file enters
\* the resolver and the duplicates counter stays 0; a file whose key holds an
\* object, matching or not, never enters it and is never a duplicate.
C25_ResolverOnlyWhenMissingAndEnabled ==
    /\ \A f \in Files :
          InResolver(f) =>
              /\ args.content_dedupe
              /\ loc[f].heard = "missing"
              /\ ~loc[f].exists
              /\ ~Holds(hist.store0, FileKey(f))
    /\ ~args.content_dedupe => summary.duplicates = 0
    /\ \A f \in Files :
          (run_no >= 1 /\ Holds(hist.store0, FileKey(f))) => loc[f].outcome # "duplicate"

\* C25 witness: with --content-dedupe and one worker, the first file was
\* uploaded, and the second, of the same content, found an object of other
\* content at its own key and was uploaded too.
C25_Witness ==
    /\ args.content_dedupe
    /\ args.workers = 1
    /\ content[2] = content[1]
    /\ loc[1].outcome = "uploaded"
    /\ loc[2].heard = "found"
    /\ loc[2].reason = "remote sha256 mismatch"
    /\ loc[2].outcome = "uploaded"
    /\ summary.duplicates = 0

\* maybe_delete_remote returned to run_sync, pre-confirmed and for real, and
\* none of its delete calls failed.
CleanSweepReturned ==
    /\ args.delete /\ args.yes /\ ~args.dry_run
    /\ sweep.listed
    /\ phase \in {"save", "exited"}
    /\ ~hist.crashed
    /\ ~hist.interrupted
    /\ sweep.errors = 0

\* C26: after a pre-confirmed, non-dry-run sweep in which no delete failed, no
\* object under the destination prefix is left whose key is not a local key,
\* whatever page of the listing it was on; and a sweep that has started ends.
C26_SweepIsComplete ==
    /\ [](CleanSweepReturned =>
            \A k \in DOMAIN bucket :
                (Holds(bucket, k) /\ StartsWith(k, DestPrefix)) => k \in LocalKeys)
    /\ (phase = "sweep") ~> (phase \in {"save", "exited"})

\* C26 witness: the listing had three pages, the object that no local file
\* maps to was on the last one, and the run ended cleanly without it.
C26_Witness ==
    /\ CleanSweepReturned
    /\ exit_code = Some(0)
    /\ Holds(hist.store0, OldKey)
    /\ ~Holds(bucket, OldKey)
    /\ Holds(bucket, FileKey(1))
    /\ Holds(bucket, FileKey(2))
    /\ sweep.continuation = Some(KeyRank(OldKey))

\* The files that ended in the outcome.
Ended(outcome) == {f \in Files : loc[f].outcome = outcome}

RECURSIVE SizeSum(_)
SizeSum(fs) ==
    IF fs = {} THEN 0 ELSE LET f == CHOOSE g \in fs : TRUE IN FileSize(f) + SizeSum(fs \ {f})

\* No counter update of a worker is lost: at every moment the counters are the
\* numbers of files that have ended in each outcome, the errors of the sweep
\* added once the sweep has returned.
CountersExact ==
    run_no >= 1 =>
        /\ summary.uploaded = Cardinality(Ended("uploaded"))
        /\ summary.skipped = Cardinality(Ended("skipped"))
        /\ summary.duplicates = Cardinality(Ended("duplicate"))
        /\ summary.uploaded_bytes = SizeSum(Ended("uploaded"))
        /\ summary.errors = Cardinality(Ended("error"))
                            + (IF "errors" \in hist.bare THEN sweep.errors ELSE 0)

ProcessFile(st, f) ==
    LET r == HeadObjectMetadata(S3Head(st.bucket, FileKey(f), "none"))
        sha == content[f]
        uri == UriForKey(FileKey(f))
        v == ChooseUploadAction(r.exists, r.metadata, FileSize(f), FileMtime(f),
                                IF HasRemoteSha(r.metadata) THEN Some(sha) ELSE None)
        run_canonical == DictGet(st.run_hash_map, sha)
        canonical == IF Truthy(run_canonical) THEN run_canonical
                     ELSE GetCanonicalUri(st.hash_index, sha)
        duplicate == /\ DedupEngaged(args.content_dedupe, r.exists)
                     /\ Verifiable(canonical)
                     /\ Holds(st.bucket, StripBucket(Get(canonical)))
    IN  IF ~v.needs_upload
        THEN IF HasRemoteSha(r.metadata)
             THEN [st EXCEPT !.summary = Counted(@, f, "skipped"),
                             !.hash_index = SetShaIndex(@, Get(Get(r.metadata).sha256), Some(uri)),
                             !.run_hash_map = DictSet(@, Get(Get(r.metadata).sha256), uri)]
             ELSE [st EXCEPT !.summary = Counted(@, f, "skipped")]
        ELSE IF duplicate
        THEN [st EXCEPT !.summary = Counted(@, f, "duplicate"),
                        !.hash_index = SetShaIndex(@, sha, canonical)]
        ELSE [st EXCEPT !.summary = Counted(@, f, "uploaded"),
                        !.bucket = IF args.dry_run THEN @ ELSE Put(@, f, sha),
                        !.hash_index = SetShaIndex(@, sha, Some(uri)),
                        !.run_hash_map = DictSet(@, sha, uri)]

\* The workers have all returned, nothing failed, and the run is still in the
\* executor block: the snapshot file is the one the run found.
WorkersReturned ==
    /\ phase = "workers"
    /\ WorkersSettled
    /\ faults = MaxFaults

\* The store and the counters are those of the files processed one after the
\* other in submission order, from the store and the snapshot the run found.
SameAsOneByOne ==
    LET zero == [summary EXCEPT !.uploaded = 0, !.uploaded_bytes = 0, !.skipped = 0,
                                !.duplicates = 0, !.errors = 0]
        st == ProcessFile(ProcessFile([bucket |-> hist.store0,
                                       hash_index |-> LoadHashIndex(disk),
                                       run_hash_map |-> EmptyDict, summary |-> zero], 1), 2)
    IN  bucket = st.bucket /\ summary = st.summary

\* C28, as claimed: for a fixed tree, store and cache the objects in the store
\* and the counters after the workers are the same in every interleaving:
\* they are those of the files processed one after the other.
C28_SameResultInEveryOrder ==
    WorkersReturned => SameAsOneByOne

\* C28, amended: with dedup mode off, the objects in the store and the
\* counters after the workers are the same in every interleaving and for
\* every worker count: those of the files processed one after the other.
C28_SameResultWithoutDedup ==
    (WorkersReturned /\ ~args.content_dedupe) => SameAsOneByOne

\* C28 witness: two workers ran at once over two files of the same content,
\* dedup mode off, one key holding an object of other content: both files
\* were uploaded, as they are one after the other.
C28_Witness ==
    /\ WorkersReturned
    /\ ~args.content_dedupe
    /\ args.workers = 2
    /\ content[1] = content[2]
    /\ ~Holds(hist.store0, FileKey(1))
    /\ Holds(hist.store0, FileKey(2))
    /\ Ended("uploaded") = Files
    /\ SameAsOneByOne

\* The keys for which a delete was issued and failed: the object is still there.
FailedDeletes == {k \in hist.calls.deletes : Holds(bucket, k)}

\* C29: every delete of the sweep that fails is counted as one error and not
\* as a deletion, and the sweep goes on: it ends only when the last page is
\* done, and the process then exits with a non-zero code.
C29_DeleteFailureIsCounted ==
    (~args.dry_run /\ FailedDeletes # {}) =>
        /\ sweep.errors = Cardinality(FailedDeletes)
        /\ sweep.deleted = Cardinality(Removed)
        /\ phase \in {"sweep", "save", "exited"}
        /\ (phase = "exited" /\ ~hist.interrupted) =>
              /\ ~sweep.truncated
              /\ sweep.page = <<>>
              /\ summary.errors >= 1
              /\ exit_code = Some(1)

\* The object at the file's key when the run started carries a content hash.
RemoteHasHash(f) ==
    /\ Holds(hist.store0, FileKey(f))
    /\ Truthy(Get(hist.store0[FileKey(f)]).meta.sha256)

\* C30: a worker obtains the local hash before the decision exactly when the
\* probed object carries a content hash: not when the object is missing, not
\* when it carries no hash; and a file skipped on size+mtime gets no hash at
\* all in the run: none is returned to the worker and none is stored in the
\* cache for it.
C30_HashOnlyWhenRequired ==
    \A f \in Files :
        (run_no >= 1 /\ loc[f].pc # "queued" /\ loc[f].heard # "failed") =>
            /\ loc[f].hashed <=> RemoteHasHash(f)
            /\ loc[f].heard = "missing" => ~loc[f].hashed
            /\ loc[f].reason = "remote size+mtime match" =>
                  /\ ~loc[f].hashed
                  /\ loc[f].sha = None
                  /\ loc[f].outcome = "skipped"
                  /\ (phase # "exited" /\ PathOf(f) \notin DOMAIN LoadEntries(disk)) =>
                        PathOf(f) \notin DOMAIN entries

\* C30 witness: the first file was skipped on size+mtime and has no cache
\* entry; the second, whose object carries a hash, was hashed before its
\* decision and has one.
C30_Witness ==
    /\ phase = "save"
    /\ disk = None
    /\ loc[1].reason = "remote size+mtime match"
    /\ loc[1].outcome = "skipped"
    /\ PathOf(1) \notin DOMAIN entries
    /\ loc[2].hashed
    /\ PathOf(2) \in DOMAIN entries

----------------------------------------------------------------------------
(* get_local_sha *)

\* The cache holds an entry for the path with this size and mtime.
HoldsEntry(ents, path, size, mtime) ==
    /\ Resolve(path) \in DOMAIN ents
    /\ ents[Resolve(path)].size = size
    /\ ents[Resolve(path)].mtime = mtime

\* C31: when the cache holds an entry for the path with the same size and
\* mtime, get_local_sha returns the entry's hash, does not read the file and
\* leaves the cache as it is; otherwise it reads the file, returns its hash and
\* stores it, so that the call that follows for the same path, size and mtime
\* is a hit that returns the same hash without reading the file.
C31_HitWithoutReadMissStores ==
    \A path \in CachePaths, size \in CacheSizes, mtime \in CacheMtimes, digest \in Hashes :
        LET first == GetLocalSha(entries, path, size, mtime, digest)
            second == GetLocalSha(first.entries, path, size, mtime, "h2")
        IN  IF HoldsEntry(entries, path, size, mtime)
            THEN /\ first.sha = entries[Resolve(path)].sha256
                 /\ ~first.read
                 /\ first.entries = entries
            ELSE /\ first.sha = digest
                 /\ first.read
                 /\ HoldsEntry(first.entries, path, size, mtime)
                 /\ ~second.read
                 /\ second.sha = digest
                 /\ second.entries = first.entries

\* C31 witness: the cache holds "a" at one stat with hash h1 and nothing for
\* "b": a call for the symlink to "a" at that stat is a hit, a call for "a" at
\* another mtime and a call for "b" are misses.
C31_Witness ==
    /\ DOMAIN entries = {"a"}
    /\ entries["a"].sha256 = "h1"
    /\ entries["a"].size = 5
    /\ entries["a"].mtime = 7
    /\ HoldsEntry(entries, "link_a", 5, 7)
    /\ ~HoldsEntry(entries, "a", 5, 12)
    /\ ~HoldsEntry(entries, "b", 5, 7)

----------------------------------------------------------------------------
(* The order of a worker's steps. *)

\* The file's own key is recorded as a canonical URI somewhere: in its cache
\* entry, in the hash index or in the run-scoped hash map.
InEntry(f) ==
    /\ PathOf(f) \in DOMAIN entries
    /\ entries[PathOf(f)].s3_uri = Some(UriForKey(FileKey(f)))

InIndex(f) == \E h \in DOMAIN hash_index : hash_index[h] = UriForKey(FileKey(f))

InRunMap(f) == \E h \in DOMAIN run_hash_map : run_hash_map[h] = UriForKey(FileKey(f))

\* The verdict on the file was to upload it: it is not on the skip path.
ToUpload(f) ==
    loc[f].reason \in {"remote missing", "remote sha256 mismatch", "remote metadata mismatch"}

\* upload_one has returned success for the file: outside a dry-run the put was
\* issued and the object at the key is the file, tagged with the hash sent.
TransferReturned(f) ==
    /\ loc[f].pc \in {"up_cache", "up_map", "done"}
    /\ loc[f].outcome \in {"", "uploaded"}
    /\ Truthy(loc[f].sha)
    /\ IF args.dry_run THEN FileKey(f) \notin hist.calls.puts
       ELSE /\ FileKey(f) \in hist.calls.puts
            /\ Holds(bucket, FileKey(f))
            /\ Get(bucket[FileKey(f)]).content = content[f]
            /\ Get(bucket[FileKey(f)]).meta.sha256 = loc[f].sha

\* The dedup check of the file is over, when it has one, and found nothing to
\* reuse.
DedupCheckOver(f) ==
    DedupEngaged(args.content_dedupe, loc[f].heard = "found") =>
        /\ Truthy(loc[f].sha)
        /\ ~Verifiable(loc[f].canonical) \/ loc[f].verified = "missing"

----------------------------------------------------------------------------
(* The caller contract of choose_upload_action. *)

\* C33: in a run the decision is never asked with a remote content hash and no
\* local hash.  No file's processing ends with "local_sha required"; a file
\* whose probed object carries a hash is decided by the hash rule, with the
\* local hash obtained first; and a file ends in an error only when a call it
\* made failed.
C33_ContractErrorUnreachable ==
    \A f \in Files :
        (run_no >= 1 /\ loc[f].pc # "queued") =>
            /\ loc[f].reason # "local_sha required when remote sha256 is present"
            /\ (loc[f].heard = "found" /\ RemoteHasHash(f)) =>
                  /\ loc[f].hashed
                  /\ loc[f].reason \in {"remote sha256 match", "remote sha256 mismatch", ""}
                  /\ loc[f].reason = "" => loc[f].outcome = "error"
            /\ loc[f].outcome = "error" => faults < MaxFaults

\* C33 witness: both files have been decided with no failure injected; the
\* first against an object that carries a hash, the second against an object
\* that carries none.
C33_Witness ==
    /\ run_no = 1
    /\ faults = MaxFaults
    /\ loc[1].reason = "remote sha256 mismatch"
    /\ loc[1].hashed
    /\ loc[2].reason = "remote metadata mismatch"
    /\ ~loc[2].hashed
    /\ loc[2].heard = "found"

----------------------------------------------------------------------------
(* Accounting. *)

\* The errors the sweep has added to the summary so far.
SweepErrorsAdded == IF "errors" \in hist.bare THEN sweep.errors ELSE 0

\* C34: every scanned file ends in exactly one of uploaded, skipped, duplicate
\* and error: once every worker has returned, the four counters (the errors
\* without those of the sweep) add up to scanned, and before that to the
\* number of files that have ended.
C34_ScannedIsSumOfOutcomes ==
    phase \in {"workers", "interrupted", "sweep", "save"} \/ (phase = "exited" /\ summary.scanned > 0) =>
        /\ summary.scanned = Cardinality(Files)
        /\ \A f \in Files :
              loc[f].pc = "done" <=> loc[f].outcome \in {"uploaded", "skipped", "duplicate", "error"}
        /\ summary.uploaded + summary.skipped + summary.duplicates
              + (summary.errors - SweepErrorsAdded)
                 = Cardinality({f \in Files : loc[f].pc = "done"})
        /\ WorkersSettled =>
              summary.scanned = summary.uploaded + summary.skipped + summary.duplicates
                                   + (summary.errors - SweepErrorsAdded)

\* C34 witness: the workers have settled with one file failed and one a
\* duplicate, and the sweep has returned and added its counts.
C34_Witness ==
    /\ WorkersSettled
    /\ phase = "save"
    /\ summary.scanned = 2
    /\ \E f \in Files : loc[f].outcome = "error"
    /\ \E f \in Files : loc[f].outcome = "duplicate"
    /\ "errors" \in hist.bare
    /\ summary.deleted = 1
    /\ summary.errors = 1

----------------------------------------------------------------------------
(* Duplicates and the content of their canonical objects. *)

\* The object at the canonical key of the file's dedup candidate holds the
\* file's content.
CanonicalHasContent(f) ==
    /\ Holds(bucket, StripBucket(Get(loc[f].canonical)))
    /\ Get(bucket[StripBucket(Get(loc[f].canonical))]).content = content[f]

\* C35, as claimed: at the step that records a file as a duplicate of the
\* canonical URI U, the object stored at U has the file's content hash, also
\* when the object at U was overwritten after the hash index named U.
C35_DuplicateHasSameContent ==
    [][\A f \in Files :
          (loc[f].outcome # "duplicate" /\ loc'[f].outcome = "duplicate") =>
              CanonicalHasContent(f)]_vars

----------------------------------------------------------------------------
(* Dedup together with the sweep. *)

\* The store holds the file's content under the destination prefix.
ContentInStore(f) ==
    \E k \in Keys :
        /\ StartsWith(k, DestPrefix)
        /\ Holds(bucket, k)
        /\ Get(bucket[k]).content = content[f]

\* C36, as claimed: after an error-free run that is not a dry-run, with dedup
\* and the pre-confirmed delete both on, the store holds every scanned file's
\* content under the destination, and the sweep has deleted no object that a
\* file was recorded as a duplicate of.
C36_ContentPreserved ==
    (/\ phase = "exited"
     /\ exit_code = Some(0)
     /\ summary.errors = 0
     /\ ~args.dry_run
     /\ args.content_dedupe
     /\ args.delete
     /\ args.yes) =>
        \A f \in Files :
            /\ ContentInStore(f)
            /\ loc[f].outcome = "duplicate" =>
                  StripBucket(Get(loc[f].canonical)) \notin hist.calls.deletes

----------------------------------------------------------------------------
(* Dry-run. *)

\* C37: a dry-run issues no put and no delete, whatever the other flags and the
\* interleaving, and the store's objects stay the ones the run found.
C37_DryRunLeavesStoreAlone ==
    (args.dry_run /\ run_no >= 1) =>
        /\ hist.calls.puts = {}
        /\ hist.calls.deletes = {}
        /\ bucket = hist.store0

\* C37 witness: a dry-run with dedup and the pre-confirmed delete on has ended;
\* it reported an upload and a deletion, and the object it reported as deleted
\* is still there.
C37_Witness ==
    /\ args.dry_run
    /\ args.delete
    /\ args.yes
    /\ args.content_dedupe
    /\ phase = "exited"
    /\ summary.uploaded >= 1
    /\ summary.deleted = 1
    /\ Holds(bucket, OldKey)
    /\ \E f \in Files : loc[f].outcome = "uploaded" /\ ~Holds(bucket, FileKey(f))

----------------------------------------------------------------------------
(* What the persisted cache names. *)

\* The snapshot file names the file's key as a canonical URI, in the file's
\* entry or in the hash index.
Persisted(f) ==
    /\ IsSome(disk)
    /\ \/ /\ PathOf(f) \in DOMAIN LoadEntries(disk)
          /\ LoadEntries(disk)[PathOf(f)].s3_uri = Some(UriForKey(FileKey(f)))
       \/ \E h \in DOMAIN LoadHashIndex(disk) : LoadHashIndex(disk)[h] = UriForKey(FileKey(f))

\* The run has seen an object at the file's key, or has put one there.
SeenOrTransferred(f) ==
    \/ loc[f].heard = "found"
    \/ Holds(hist.store0, FileKey(f))
    \/ FileKey(f) \in hist.calls.puts /\ loc[f].outcome = "uploaded"

\* C38, as claimed: a canonical URI in the persisted cache names a key that a
\* run uploaded successfully or observed in the store.  The snapshots a first
\* run starts from name no local file's key, so every such URI on disk after
\* the run was written by it.
C38_PersistedUriWasTransferred ==
    \A f \in Files : (run_no >= 1 /\ Persisted(f)) => SeenOrTransferred(f)

----------------------------------------------------------------------------
(* The scrub of a stale hash-index entry. *)

\* File g was uploaded in this run and the hash index names its key for hash h.
ValidMapping(g, h) ==
    /\ ~args.dry_run
    /\ loc[g].pc \in {"up_map", "done"}
    /\ loc[g].outcome \in {"", "uploaded"}
    /\ loc[g].sha = Some(h)
    /\ FileKey(g) \in hist.calls.puts
    /\ Holds(bucket, FileKey(g))
    /\ h \in DOMAIN hash_index
    /\ hash_index[h] = UriForKey(FileKey(g))

\* C39, as claimed: once a worker has recorded its key as canonical for h after
\* a successful upload in this run, no other worker's scrub of a stale entry
\* for h removes that mapping.
C39_ScrubSparesValidMapping ==
    [][\A f \in Files, g \in Files, h \in Hashes :
          (/\ f # g
           /\ loc[f].pc = "dd_scrub"
           /\ loc'[f].pc = "upload"
           /\ ValidMapping(g, h)) =>
              (h \in DOMAIN hash_index' /\ hash_index'[h] = UriForKey(FileKey(g)))]_vars

====
